---- MODULE Spec2Model ----
(***************************************************************************)
(* Browser acquisition and launch subsystem of n8n-nodes-dante-pdf.        *)
(*                                                                         *)
(* The repository carries two revisions of utils/browserSetup.ts:          *)
(*   "ts" = src/src/utils/browserSetup.ts                                  *)
(*   "p5" = src/unnamed/part_005 (second half, class BrowserSetup)         *)
(* The variable impl says which revision the process has loaded.           *)
(*                                                                         *)
(* Strings that the code builds (error messages) are sequences of tokens;  *)
(* "contains" is contiguous-subsequence containment.                       *)
(***************************************************************************)
EXTENDS Integers, Sequences, FiniteSets, TLC

\* ------------------------------------------------------------------ bounds
NCallers == 2
MaxCalls == 2
MaxFsChanges == 1
MaxExisting == 2
MaxItems == 2

\* --------------------------------------------------------------- constants
DefaultRetryAttempts == 3
BackoffUnitMs == 1000

Null == "null"
PW == "<playwright-bundled-chromium>"
\* the executable the CHROME_PATH environment variable names
PinnedChrome == "<CHROME_PATH>"

Impls == {"ts", "p5"}

\* ------------------------------------------------------------ token strings
RECURSIVE ContainsAt(_, _, _)
ContainsAt(msg, sub, i) ==
  IF i + Len(sub) - 1 > Len(msg) THEN FALSE
  ELSE IF SubSeq(msg, i, i + Len(sub) - 1) = sub THEN TRUE
  ELSE ContainsAt(msg, sub, i + 1)

Contains(msg, sub) == ContainsAt(msg, sub, 1)

\* ------------------------------------------------- SystemDependencyInstaller
\* What the probes of detectSystem observe on the host.
LinuxEnvs ==
  { [platform |-> "linux", arch |-> a, alpine |-> al, ldd |-> l,
     debian |-> d, redhat |-> r, archmark |-> am, readOk |-> ro, uname |-> u,
     wmic |-> "fail", wsl |-> "fail", swvers |-> "fail"] :
      a \in {"x64"}, al \in BOOLEAN, l \in {"musl", "gnu", "other", "fail"},
      d \in BOOLEAN, r \in BOOLEAN, am \in BOOLEAN, ro \in BOOLEAN,
      u \in {"wsl", "plain", "fail"} }

WindowsEnvs ==
  { [platform |-> "win32", arch |-> a, alpine |-> FALSE, ldd |-> "fail",
     debian |-> FALSE, redhat |-> FALSE, archmark |-> FALSE, readOk |-> TRUE,
     uname |-> "fail", wmic |-> w, wsl |-> ws, swvers |-> "fail"] :
      a \in {"x64"}, w \in {"microsoft", "nomatch", "fail"},
      ws \in {"list", "empty", "fail"} }

OtherEnvs ==
  { [platform |-> pf, arch |-> a, alpine |-> FALSE, ldd |-> "fail",
     debian |-> FALSE, redhat |-> FALSE, archmark |-> FALSE, readOk |-> TRUE,
     uname |-> "fail", wmic |-> "fail", wsl |-> "fail", swvers |-> sv] :
      pf \in {"darwin", "freebsd"}, a \in {"x64", "arm64"}, sv \in {"ok", "fail"} }

ProbeEnvs == LinuxEnvs \cup WindowsEnvs \cup OtherEnvs

\* libc detection block of detectSystem
detectLibc(e) ==
  IF e.platform # "linux" THEN Null
  ELSE IF e.alpine THEN "musl"
  ELSE IF e.ldd = "fail" THEN (IF e.alpine THEN "musl" ELSE "glibc")
  ELSE IF e.ldd = "musl" THEN "musl"
  ELSE IF e.ldd = "gnu" THEN "glibc"
  ELSE Null

\* distro / WSL / osVersion block of detectSystem; a throw inside the outer
\* try keeps what was assigned before it.
detectDistro(e) ==
  IF e.platform = "win32" THEN
    IF e.wmic = "fail" THEN [distro |-> "unknown", isWSL |-> FALSE, osVersion |-> ""]
    ELSE [distro |-> IF e.wmic = "microsoft" THEN "windows" ELSE "unknown",
          isWSL |-> (e.wsl = "list"),
          osVersion |-> IF e.wmic = "microsoft" THEN "ver" ELSE ""]
  ELSE IF e.platform = "linux" THEN
    LET d == IF e.alpine THEN "alpine"
             ELSE IF e.debian THEN "debian"
             ELSE IF e.redhat THEN "redhat"
             ELSE IF e.archmark THEN "arch"
             ELSE "unknown"
        reads == d \in {"alpine", "debian", "redhat"}
    IN IF reads /\ ~e.readOk
         THEN [distro |-> d, isWSL |-> FALSE, osVersion |-> ""]
         ELSE [distro |-> d, isWSL |-> (e.uname = "wsl"),
               osVersion |-> IF reads THEN "ver" ELSE ""]
  ELSE IF e.platform = "darwin" THEN
    [distro |-> "macos", isWSL |-> FALSE,
     osVersion |-> IF e.swvers = "ok" THEN "ver" ELSE ""]
  ELSE [distro |-> "unknown", isWSL |-> FALSE, osVersion |-> ""]

\* the SystemInfo that an uncached detectSystem() computes
detectSystem(e) ==
  LET dd == detectDistro(e)
  IN [platform |-> e.platform, arch |-> e.arch, libc |-> detectLibc(e),
      distro |-> dd.distro, isWSL |-> dd.isWSL, osVersion |-> dd.osVersion]

Profiles == { detectSystem(e) : e \in ProbeEnvs }

\* private static systemInfo: SystemInfo | null = null
NoInfo ==
  [platform |-> Null, arch |-> Null, libc |-> Null, distro |-> Null,
   isWSL |-> FALSE, osVersion |-> ""]

\* the platform test with the libc half forgotten
isAlpineOnly(si) == si.distro = "alpine"

\* systemInfo.distro === 'alpine' || systemInfo.libc === 'musl'
isAlpineOrMusl(si) == si.distro = "alpine" \/ si.libc = "musl"

\* --------------------------------------------------------------- BrowserSetup
candidatePathsTs(si) ==
  IF si.platform = "win32" THEN
    << "C:\\Program Files\\Google\\Chrome\\Application\\chrome.exe",
       "C:\\Program Files (x86)\\Google\\Chrome\\Application\\chrome.exe",
       "C:\\Program Files\\Microsoft\\Edge\\Application\\msedge.exe",
       "C:\\Program Files (x86)\\Microsoft\\Edge\\Application\\msedge.exe" >>
  ELSE IF si.platform = "darwin" THEN
    << "/Applications/Google Chrome.app/Contents/MacOS/Google Chrome",
       "/Applications/Microsoft Edge.app/Contents/MacOS/Microsoft Edge",
       "/Applications/Chromium.app/Contents/MacOS/Chromium" >>
  ELSE IF si.platform = "linux" THEN
    IF isAlpineOrMusl(si) THEN
      << "/usr/bin/chromium-browser",
         "/usr/bin/chromium",
         "/usr/lib/chromium/chromium",
         "/usr/bin/google-chrome-stable",
         "/usr/bin/google-chrome" >>
    ELSE
      << "/usr/bin/google-chrome-stable",
         "/usr/bin/google-chrome",
         "/usr/bin/chromium-browser",
         "/usr/bin/chromium",
         "/snap/bin/chromium",
         "/var/lib/flatpak/app/org.chromium.Chromium/current/active/export/bin/org.chromium.Chromium" >>
  ELSE << >>

candidatePathsP5(si) ==
  IF si.platform = "win32" THEN
    << "C:\\Program Files\\Google\\Chrome\\Application\\chrome.exe",
       "C:\\Program Files (x86)\\Google\\Chrome\\Application\\chrome.exe",
       "C:\\Program Files\\Chromium\\Application\\chrome.exe",
       "C:\\Program Files (x86)\\Chromium\\Application\\chrome.exe" >>
  ELSE IF si.platform = "darwin" THEN
    << "/Applications/Google Chrome.app/Contents/MacOS/Google Chrome",
       "/Applications/Chromium.app/Contents/MacOS/Chromium" >>
  ELSE IF si.platform = "linux" THEN
    IF isAlpineOrMusl(si) THEN
      << "/usr/bin/chromium",
         "/usr/bin/chromium-browser",
         "/usr/lib/chromium/chromium",
         "/usr/lib/chromium-browser/chromium-browser" >>
    ELSE
      << "/usr/bin/chromium",
         "/usr/bin/chromium-browser",
         "/usr/bin/google-chrome",
         "/usr/bin/google-chrome-stable",
         "/usr/bin/google-chrome-beta",
         "/usr/bin/google-chrome-unstable",
         "/snap/bin/chromium",
         "/var/lib/flatpak/app/org.chromium.Chromium/current/active/export/bin/org.chromium.Chromium" >>
  ELSE << >>

candidatePaths(v, si) == IF v = "ts" THEN candidatePathsTs(si) ELSE candidatePathsP5(si)

Range(s) == { s[i] : i \in 1..Len(s) }

SystemPaths == UNION { Range(candidatePaths(v, si)) : v \in Impls, si \in Profiles }
AllPaths == SystemPaths \cup {PW}

\* for (const browserPath of candidatePaths) if (fs.existsSync(browserPath)) return
existing(cands, files) == { i \in 1..Len(cands) : cands[i] \in files }
\* the candidate loop without its fs.existsSync test
firstListed(cands, files) == IF Len(cands) = 0 THEN Null ELSE cands[1]

firstExisting(cands, files) ==
  IF existing(cands, files) = {} THEN Null
  ELSE cands[CHOOSE i \in existing(cands, files) : \A j \in existing(cands, files) : i <= j]

\* chromium.executablePath() guarded by fs.existsSync inside try/catch
bundledUsable(files, pwOk) == pwOk /\ PW \in files

AlpineMsgTs ==
  << "Alpine", "Linux", "requires", "system", "Chromium.", "Please", "install",
     "with:", "apk", "add", "chromium", "chromium-chromedriver" >>
GenericMsgTs ==
  << "No", "suitable", "browser", "found.", "Please", "install", "Chrome,",
     "Chromium,", "or", "run:", "npx", "playwright-core", "install", "chromium" >>
AlpineMsgP5 ==
  << "No", "Chrome/Chromium", "browser", "found", "on", "Alpine", "Linux.",
     "Please", "install", "system", "Chromium:",
     "apk", "add", "--no-cache", "chromium", "chromium-chromedriver",
     "For", "Docker", "users,", "add", "this", "to", "your", "Dockerfile:",
     "RUN", "apk", "add", "--no-cache", "chromium", "chromium-chromedriver",
     "ttf-liberation", "fontconfig",
     "Note:", "Playwright", "bundled", "Chrome", "does", "NOT", "work", "on",
     "Alpine", "Linux", "(musl/glibc", "incompatibility)" >>
GenericMsgP5 ==
  << "No", "Chrome/Chromium", "browser", "found.",
     "Please", "install", "Chrome", "or", "Chromium:",
     "-", "Chrome:", "https://www.google.com/chrome/",
     "-", "Chromium:", "Use", "your", "system", "package", "manager",
     "Ubuntu/Debian:", "apt", "install", "chromium-browser",
     "Fedora:", "dnf", "install", "chromium",
     "Arch:", "pacman", "-S", "chromium" >>

Found(p) == [ok |-> TRUE, path |-> p, msg |-> << >>]
NotFound(m) == [ok |-> FALSE, path |-> Null, msg |-> m]

findOptimalBrowserPathTs(si, useSystemChrome, files, pwOk) ==
  LET cands == candidatePathsTs(si)
      sys == firstExisting(cands, files)
  IN IF (isAlpineOrMusl(si) \/ useSystemChrome) /\ sys # Null THEN Found(sys)
     ELSE IF isAlpineOrMusl(si) THEN NotFound(AlpineMsgTs)
     ELSE IF bundledUsable(files, pwOk) THEN Found(PW)
     ELSE IF sys # Null THEN Found(sys)
     ELSE NotFound(GenericMsgTs)

findOptimalBrowserPathP5(si, useSystemChrome, files, pwOk) ==
  LET cands == candidatePathsP5(si)
      sys == firstExisting(cands, files)
  IN IF sys # Null THEN Found(sys)
     ELSE IF ~isAlpineOrMusl(si) /\ bundledUsable(files, pwOk) THEN Found(PW)
     ELSE IF isAlpineOrMusl(si) THEN NotFound(AlpineMsgP5)
     ELSE NotFound(GenericMsgP5)

findOptimalBrowserPath(v, si, useSystemChrome, files, pwOk) ==
  IF v = "ts" THEN findOptimalBrowserPathTs(si, useSystemChrome, files, pwOk)
  ELSE findOptimalBrowserPathP5(si, useSystemChrome, files, pwOk)


\* ------------------------------------------- installDependencies and helpers
AlpinePackages(si) ==
  << "gcompat", "libstdc++", "chromium", "ttf-liberation", "fontconfig", "cairo",
     "pango", "gdk-pixbuf", "gtk+3.0", "nss", "freetype", "harfbuzz", "alsa-lib",
     "alsa-lib-dev", "pulseaudio-libs" >>
  \o (IF si.libc = "musl" THEN << "glib", "atk", "at-spi2-atk", "cups-libs" >> ELSE << >>)
DebianPackages ==
  << "libnss3", "libatk-bridge2.0-0", "libxcomposite1", "libxdamage1", "libxrandr2",
     "libgbm1", "libxss1", "libasound2", "libatspi2.0-0", "libgtk-3-0",
     "libgdk-pixbuf2.0-0", "libglib2.0-0", "fonts-liberation", "libappindicator3-1",
     "xdg-utils" >>
RedHatPackages ==
  << "nss", "atk", "cups-libs", "gtk3", "libXcomposite", "libXdamage", "libXrandr",
     "libgbm", "libXss", "alsa-lib" >>
ArchPackages ==
  << "nss", "atk", "gtk3", "libxcomposite", "libxdamage", "libxrandr", "mesa",
     "libxss", "alsa-lib" >>
WindowsPackages == << "vcredist2019", "visualcpp-build-tools" >>

AllPackages ==
  Range(AlpinePackages([libc |-> "musl"])) \cup Range(DebianPackages)
    \cup Range(RedHatPackages) \cup Range(ArchPackages) \cup Range(WindowsPackages)

\* What the package-manager commands do on the host during one install run:
\*   index   - the index refresh (apk update / apt-get update) succeeds
\*   batch   - the apt-get batch install succeeds
\*   tool    - choco / dnf / xcode-select answers
\*   present - packages `apk info` reports as installed
\*   bad     - packages whose install command fails or times out
CmdAllOk == [index |-> TRUE, batch |-> TRUE, tool |-> TRUE, present |-> {}, bad |-> {}]
CmdAllFail == [index |-> FALSE, batch |-> FALSE, tool |-> FALSE, present |-> {},
               bad |-> AllPackages]
CmdPkgsFail == [index |-> TRUE, batch |-> FALSE, tool |-> TRUE, present |-> {},
                bad |-> AllPackages]
MainCmds == {CmdAllOk, CmdAllFail, CmdPkgsFail}

\* An installer either returns an InstallResult or is left by an exception;
\* `ran` lists the packages whose install command was executed.
InstallResult(s, msg, inst, failed, ran) ==
  [threw |-> FALSE, success |-> s, message |-> msg, installed |-> inst,
   failed |-> failed, ran |-> ran]

\* an exception carrying message e, thrown before any package was attempted
Thrown(e) ==
  [threw |-> TRUE, success |-> FALSE, message |-> e, installed |-> {},
   failed |-> {}, ran |-> {}]

\* a catch clause that lets the exception through
noCatch(r, prefix) == r

\* catch (error) { return { success: false, message: `<prefix> ${error.message}`,
\*                          failedPackages } }
tryCatch(r, prefix) ==
  IF r.threw THEN [r EXCEPT !.threw = FALSE, !.success = FALSE, !.message = prefix \o @]
  ELSE r

\* `<Name> dependencies installation completed. Installed: n, Failed: m`
completedMessage(name, inst, failed) ==
  << name, "dependencies", "installation", "completed.", "Installed:",
     ToString(Cardinality(inst)), "Failed:", ToString(Cardinality(failed)) >>

\* the message of the error execAsync rejects with
CommandFailed(cmd) == << "Command", "failed:" >> \o cmd

\* failedPackages.length < packages.length / 2
majorityOk(failed, pkgs) == 2 * Cardinality(failed) < Len(pkgs)

\* nothing installed, nothing failed, no install command issued yet
NoneYet == [installed |-> {}, failed |-> {}, ran |-> {}]

\* a package loop that gives up at the first package that fails
RECURSIVE loopUntilFailure(_, _, _, _)
loopUntilFailure(pkgs, c, checks, acc) ==
  IF pkgs = << >> THEN acc
  ELSE LET x == Head(pkgs)
           present == checks /\ x \in c.present
       IN IF present
            THEN loopUntilFailure(Tail(pkgs), c, checks,
                                  [acc EXCEPT !.installed = @ \cup {x}])
            ELSE IF x \in c.bad
              THEN [acc EXCEPT !.failed = @ \cup {x}, !.ran = @ \cup {x}]
              ELSE loopUntilFailure(Tail(pkgs), c, checks,
                                    [acc EXCEPT !.installed = @ \cup {x}, !.ran = @ \cup {x}])

runLoopUntilFailure(pkgs, c, checks) == loopUntilFailure(pkgs, c, checks, NoneYet)

\* a package loop that records a failed package as installed too
runLoopCountingTwice(pkgs, c, checks) ==
  [installed |-> Range(pkgs), failed |-> Range(pkgs) \cap c.bad, ran |-> Range(pkgs)]

\* for (const pkg of packages) { try { ...install...; installedPackages.push(pkg) }
\*                               catch { failedPackages.push(pkg) } }
\* checks: the loop first asks `apk info` and skips the install command for a
\* package reported present (Alpine only)
RECURSIVE packageLoop(_, _, _, _)
packageLoop(pkgs, c, checks, acc) ==
  IF pkgs = << >> THEN acc
  ELSE LET x == Head(pkgs)
           present == checks /\ x \in c.present
           next == IF present THEN [acc EXCEPT !.installed = @ \cup {x}]
                   ELSE IF x \in c.bad
                     THEN [acc EXCEPT !.failed = @ \cup {x}, !.ran = @ \cup {x}]
                     ELSE [acc EXCEPT !.installed = @ \cup {x}, !.ran = @ \cup {x}]
       IN packageLoop(Tail(pkgs), c, checks, next)

runPackageLoop(pkgs, c, checks) == packageLoop(pkgs, c, checks, NoneYet)

installWindowsDependencies(si, c) ==
  LET r == IF c.tool THEN runPackageLoop(WindowsPackages, c, FALSE) ELSE NoneYet
  IN tryCatch(InstallResult(TRUE, completedMessage("Windows", r.installed, r.failed),
                            r.installed, r.failed, r.ran),
              << "Windows", "dependency", "installation", "failed:" >>)

installAlpineDependencies(si, c) ==
  LET pkgs == AlpinePackages(si)
      r == runPackageLoop(pkgs, c, TRUE)
  IN tryCatch(IF ~c.index THEN Thrown(CommandFailed(<< "apk", "update" >>))
              ELSE InstallResult(majorityOk(r.failed, pkgs),
                                 completedMessage("Alpine", r.installed, r.failed),
                                 r.installed, r.failed, r.ran),
              << "Alpine", "dependency", "installation", "failed:" >>)

\* the batch `apt-get install -y <all>` first; the package loop when it fails
installDebianDependencies(si, c) ==
  LET pkgs == DebianPackages
      r == IF c.batch
             THEN [installed |-> Range(pkgs), failed |-> {}, ran |-> Range(pkgs)]
             ELSE runPackageLoop(pkgs, c, FALSE)
  IN tryCatch(IF ~c.index THEN Thrown(CommandFailed(<< "apt-get", "update", "-qq" >>))
              ELSE InstallResult(majorityOk(r.failed, pkgs),
                                 completedMessage("Debian", r.installed, r.failed),
                                 r.installed, r.failed, r.ran),
              << "Debian", "dependency", "installation", "failed:" >>)

\* { ...debianResult, message: `WSL ${debianResult.message}` }
installWSLDependencies(si, c) ==
  LET debianResult == installDebianDependencies(si, c)
  IN [debianResult EXCEPT !.message = << "WSL" >> \o @]

installRedHatDependencies(si, c) ==
  LET pkgs == RedHatPackages
      r == runPackageLoop(pkgs, c, FALSE)
  IN tryCatch(InstallResult(majorityOk(r.failed, pkgs),
                            completedMessage("RedHat", r.installed, r.failed),
                            r.installed, r.failed, r.ran),
              << "RedHat", "dependency", "installation", "failed:" >>)

installArchDependencies(si, c) ==
  LET pkgs == ArchPackages
      r == runPackageLoop(pkgs, c, FALSE)
  IN tryCatch(InstallResult(majorityOk(r.failed, pkgs),
                            completedMessage("Arch", r.installed, r.failed),
                            r.installed, r.failed, r.ran),
              << "Arch", "dependency", "installation", "failed:" >>)

installMacOSDependencies(si, c) ==
  IF c.tool
    THEN InstallResult(TRUE, << "macOS", "dependencies", "verified", "successfully" >>,
                       {"xcode-command-line-tools"}, {}, {})
    ELSE InstallResult(FALSE, << "Please", "install", "Xcode", "Command", "Line",
                                 "Tools:", "xcode-select", "--install" >>,
                       {}, {"xcode-command-line-tools"}, {})

\* the if-chain of installDependencies: the installer a profile is sent to
installerFor(si) ==
  IF si.platform = "win32" THEN "windows"
  ELSE IF si.platform = "linux" /\ si.isWSL THEN "wsl"
  ELSE IF si.platform = "linux" /\ si.distro = "alpine" THEN "alpine"
  ELSE IF si.platform = "linux" /\ si.distro = "debian" THEN "debian"
  ELSE IF si.platform = "linux" /\ si.distro = "redhat" THEN "redhat"
  ELSE IF si.platform = "linux" /\ si.distro = "arch" THEN "arch"
  ELSE IF si.platform = "darwin" THEN "macos"
  ELSE "none"

\* the platform dispatch inside the try of installDependencies
installDispatch(si, c) ==
  LET to == installerFor(si)
  IN IF to = "windows" THEN installWindowsDependencies(si, c)
     ELSE IF to = "wsl" THEN installWSLDependencies(si, c)
     ELSE IF to = "alpine" THEN installAlpineDependencies(si, c)
     ELSE IF to = "debian" THEN installDebianDependencies(si, c)
     ELSE IF to = "redhat" THEN installRedHatDependencies(si, c)
     ELSE IF to = "arch" THEN installArchDependencies(si, c)
     ELSE IF to = "macos" THEN installMacOSDependencies(si, c)
     ELSE InstallResult(TRUE, << "No", "dependency", "installation", "required", "for",
                                 si.platform, si.distro >>, {}, {}, {})

\* the package manager whose commands the chosen installer issues
\* (c.tool: `choco --version` / `dnf --version` answers)
managerInvoked(si, c) ==
  LET to == installerFor(si)
  IN IF to = "windows" THEN (IF c.tool THEN "choco" ELSE "none")
     ELSE IF to \in {"wsl", "debian"} THEN "apt-get"
     ELSE IF to = "alpine" THEN "apk"
     ELSE IF to = "redhat" THEN (IF c.tool THEN "dnf" ELSE "yum")
     ELSE IF to = "arch" THEN "pacman"
     ELSE IF to = "macos" THEN "xcode-select"
     ELSE "none"

installDependencies(si, c) ==
  tryCatch(installDispatch(si, c),
           << "Failed", "to", "install", "system", "dependencies:" >>)

\* ------------------------------------------------------------ launch errors
LaunchError(n) == IF n = 1 THEN "<launch-error-1>" ELSE "<launch-error-2>"

\* ts: `Failed to launch browser: ${error.message}. Please ensure ...`
launchFailureMessageTs(raw) ==
  << "Failed", "to", "launch", "browser:", raw, ".", "Please", "ensure",
     "Chrome/Chromium", "is", "properly", "installed." >>

\* p5: generateComprehensiveErrorMessage(systemInfo, executablePath)
generateComprehensiveErrorMessage(si, executablePath) ==
  << "Failed", "to", "launch", "Chrome/Chromium", "browser.",
     "System:", si.platform, "/", si.distro,
     "Attempted", "executable:", executablePath >>
  \o (IF isAlpineOrMusl(si)
        THEN << "Alpine", "Linux", "Troubleshooting:",
                "1.", "Install", "Chromium:",
                "apk", "add", "--no-cache", "chromium", "chromium-chromedriver",
                "2.", "Install", "fonts", "and", "dependencies:",
                "apk", "add", "--no-cache", "ttf-liberation", "fontconfig",
                "3.", "Check", "browser", "permissions:",
                "ls", "-la", "/usr/bin/chromium" >>
        ELSE << "General", "Troubleshooting:",
                "1.", "Ensure", "Chrome", "or", "Chromium", "is", "installed",
                "2.", "Check", "file", "permissions",
                "3.", "Verify", "system", "dependencies" >>)

\* the wait createOptimizedBrowser makes after its n-th failed attempt, before
\* the next one, in milliseconds
\*   p5: await new Promise(resolve => setTimeout(resolve, 1000 * attempts))
\*   ts: the fallback launch follows the failed launch at once
retryDelay(v, n) == IF v = "p5" THEN BackoffUnitMs * n ELSE 0

\* const maxAttempts = options.retryAttempts || 3   (0 stands for "not given")
maxAttempts(o) == IF o.retryAttempts = 0 THEN DefaultRetryAttempts ELSE o.retryAttempts


\* ===================================================================== state
VARIABLES
  impl,             \* which revision of browserSetup.ts is loaded
  env,              \* what detectSystem's probes observe on this host
  fs,               \* paths that exist on the filesystem now
  pwOk,             \* chromium.executablePath() returns (does not throw)
  chromePath,       \* the CHROME_PATH environment variable (Null when not set)
  fsChanges,        \* number of external filesystem changes so far
  systemInfo,       \* SystemDependencyInstaller.systemInfo
  browserPath,      \* BrowserSetup.browserPath
  systemOptimized,  \* BrowserSetup.systemOptimized
  calls,            \* top-level operations started so far
  pc,               \* where each caller's async call stands
  op,               \* the top-level operation each caller runs
  opts,             \* BrowserSetupOptions of the running call
  loc,              \* pending result of findOptimalBrowserPath
  sb,               \* settled result of the caller's last setupBrowser()
  attempts,         \* p5 createOptimizedBrowser: failed setup attempts
  plan,             \* launch function: first launch attempt it accepts
  nlaunch,          \* chromium.launch() attempts made by the running call
  out,              \* outcome of the top-level operation
  anyResolved,      \* some setupBrowser() call has settled
  firstWave,        \* the caller's setupBrowser() began before any settled
  waveInstalls,     \* installDependencies() invocations by first-wave calls
  conv,             \* the conversion performConversion is running, and its converter
  items,            \* items of the input the node has processed
  inst,             \* a converter instance shared by several convert calls
  cv,               \* where each caller's convert call on that instance stands
  det,              \* each caller's detectSystem() call: position and value returned
  probes,           \* runs of detectSystem's probe blocks so far
  ires,             \* what the last installDependencies() call came to
  host,             \* DantePdf.execute: the node's settings, returnData, the error raised
  bi                \* BrowserInstaller: the singleton's fields and its callers

vars == << impl, env, fs, pwOk, chromePath, fsChanges, systemInfo, browserPath, systemOptimized,
           calls, pc, op, opts, loc, sb, attempts, plan, nlaunch, out,
           anyResolved, firstWave, waveInstalls, conv, items, inst, cv,
           det, probes, ires, host, bi >>

\* what no step of BrowserSetup changes: the host and the converter above it
outerVars == << impl, env, pwOk, chromePath, conv, items, inst, cv, det, probes, ires, host, bi >>
ghostVars == << anyResolved, firstWave, waveInstalls >>

Callers == 1..NCallers

NoOpts == [useSystemChrome |-> FALSE, retryAttempts |-> 0]
NoLoc == [ok |-> FALSE, path |-> Null, msg |-> << >>]
NoOut == [ok |-> FALSE, path |-> Null, msg |-> << >>, sysOpt |-> FALSE]
Ok(path, so) == [ok |-> TRUE, path |-> path, msg |-> << >>, sysOpt |-> so]
Err(m) == [ok |-> FALSE, path |-> Null, msg |-> m, sysOpt |-> FALSE]

\* ------------------------------------------------------------ error objects
\* no error
NoErr == [name |-> "none", message |-> << >>, code |-> "", itemIndex |-> -1]

\* new Error(message)
Error(m) == [name |-> "Error", message |-> m, code |-> "", itemIndex |-> -1]

\* class ConversionError extends Error: super(message), name, code
ConversionError(m, code) ==
  [name |-> "ConversionError", message |-> m, code |-> code, itemIndex |-> -1]

\* a wrapper that puts its own text in front of the message it is given
conversionFailedPrefixed(m) ==
  ConversionError(<< "PDF", "conversion", "failed:" >> \o m, "CONVERSION_FAILED")

\* createError.conversionFailed(message)
conversionFailed(m) == ConversionError(m, "CONVERSION_FAILED")

\* createError.invalidInput(`Validation failed: ...`), createError.missingFile(...)
invalidInput == ConversionError(<< "Validation", "failed:", "<errors>" >>, "INVALID_INPUT")
missingFile == ConversionError(<< "DOCX", "file", "is", "required" >>, "MISSING_FILE")

\* catch (error) { throw createError.conversionFailed(error.message) } of
\* HtmlConverter.convert / DocsConverter.convert and of BaseConverter.execute
convertCatch(e) == conversionFailed(e.message)
executeCatch(e) == conversionFailed(e.message)

\* a NodeOperationError built without its { itemIndex } option
NodeOperationErrorUntagged(m, i) ==
  [name |-> "NodeOperationError", message |-> m, code |-> "", itemIndex |-> -1]

\* new NodeOperationError(this.getNode(), error.message, { itemIndex: i })
NodeOperationError(m, i) ==
  [name |-> "NodeOperationError", message |-> m, code |-> "", itemIndex |-> i]

\* errors rejected by Playwright calls
PageError(what) == Error(<< what, "Target", "closed" >>)

\* a detectSystem() call not made yet, and no installDependencies() call yet
NoDet == [pc |-> "idle", value |-> NoInfo]
NoRun == [done |-> FALSE, cmds |-> CmdAllOk, manager |-> "none", result |-> Thrown(<< >>)]

\* a converter right after `new HtmlConverter()` / `new DocsConverter()`
\*   browser      this.browser (Null or the session object)
\*   sessionOpen  the launched browser process is alive
\*   pageOpen     the page opened by convert is open
\*   launched     convert obtained a session from createOptimizedBrowser
\*   threw        the conversion is on its error path
\*   cleanups     calls of converter.cleanup() made by performConversion
\*   closeRejected / pageCloseRejected   the last close() call rejected
\*   error        the error on its way out of the conversion
\*   cause        why the conversion failed: "acquire" when
\*                createOptimizedBrowser threw (location or launch), else "other"
\*   origin       the message createOptimizedBrowser threw with
NoConv ==
  [pc |-> "idle", kind |-> "none", browser |-> Null, sessionOpen |-> FALSE,
   pageOpen |-> FALSE, launched |-> FALSE, threw |-> FALSE, cleanups |-> 0,
   closeRejected |-> FALSE, pageCloseRejected |-> FALSE,
   error |-> NoErr, cause |-> "none", origin |-> << >>]

\* DantePdf.execute before it is called
\*   cof         this.continueOnFail()
\*   n           items.length
\*   merge       the first item's conversionType is mergePdfs
\*   returnData  the output items pushed so far: the input item each one is
\*               for, its json.error (empty when it carries a PDF), and why
\*               the conversion failed with the message BrowserSetup threw
\*   raised      the error execute threw
NoHost ==
  [started |-> FALSE, finished |-> FALSE, cof |-> FALSE, n |-> 0, merge |-> FALSE,
   returnData |-> << >>, raised |-> NoErr, cause |-> "none", origin |-> << >>]

\* a converter instance used directly through convert and cleanup
\*   browser        this.browser: 0 for null, else the session (named after the
\*                  convert call that launched it)
\*   open           sessions launched for this instance and not yet closed
\*   cleaned        cleanup() has been called
\*   closeRejected  the browser.close() of that cleanup rejected
NoInst == [browser |-> 0, open |-> {}, cleaned |-> FALSE, closeRejected |-> FALSE]

\* a promise of installBrowser(): its number, how it settled, its error
NoPromise == [n |-> 0, state |-> "none", error |-> NoErr]

\* BrowserInstaller after getInstance(): isInstalling = false, installPromise =
\* null; around it the engine's executable (installed), the install commands
\* run so far (commands), and for each caller its position in
\* ensureBrowserInstalled (pc), the result of its check (chk), the promise it
\* awaits (mine), how its call settled (result) and its settled calls (calls)
NoBi ==
  [isInstalling |-> FALSE, installPromise |-> NoPromise, installed |-> FALSE,
   commands |-> 0,
   pc |-> [p \in Callers |-> "idle"], chk |-> [p \in Callers |-> FALSE],
   mine |-> [p \in Callers |-> NoPromise], result |-> [p \in Callers |-> NoPromise],
   calls |-> [p \in Callers |-> 0]]

\* launch function: attempt n of a call is accepted from attempt plan on
AcceptPlans == 1..DefaultRetryAttempts

\* hosts of the lifecycle specification
EnvAlpine ==
  [platform |-> "linux", arch |-> "x64", alpine |-> TRUE, ldd |-> "musl",
   debian |-> FALSE, redhat |-> FALSE, archmark |-> FALSE, readOk |-> TRUE,
   uname |-> "plain", wmic |-> "fail", wsl |-> "fail", swvers |-> "fail"]
EnvDebian ==
  [platform |-> "linux", arch |-> "x64", alpine |-> FALSE, ldd |-> "gnu",
   debian |-> TRUE, redhat |-> FALSE, archmark |-> FALSE, readOk |-> TRUE,
   uname |-> "plain", wmic |-> "fail", wsl |-> "fail", swvers |-> "fail"]
MainEnvs == {EnvAlpine, EnvDebian}

\* paths whose existence varies in the lifecycle specification: the first
\* candidate of the host's list and the bundled engine
watched(v, e) ==
  LET c == candidatePaths(v, detectSystem(e))
  IN {c[1], PW}

Init ==
  /\ impl \in Impls
  /\ env \in MainEnvs
  /\ fs \in SUBSET watched(impl, env)
  /\ pwOk = TRUE
  /\ chromePath = Null
  /\ fsChanges = 0
  /\ systemInfo = NoInfo
  /\ browserPath = Null
  /\ systemOptimized = FALSE
  /\ calls = 0
  /\ pc = [p \in Callers |-> "idle"]
  /\ op = [p \in Callers |-> "none"]
  /\ opts = [p \in Callers |-> NoOpts]
  /\ loc = [p \in Callers |-> NoLoc]
  /\ sb = [p \in Callers |-> NoLoc]
  /\ attempts = [p \in Callers |-> 0]
  /\ plan = [p \in Callers |-> 1]
  /\ nlaunch = [p \in Callers |-> 0]
  /\ out = [p \in Callers |-> NoOut]
  /\ anyResolved = FALSE
  /\ firstWave = [p \in Callers |-> FALSE]
  /\ waveInstalls = 0
  /\ conv = NoConv
  /\ items = 0
  /\ inst = NoInst
  /\ cv = [p \in Callers |-> "idle"]
  /\ det = [p \in Callers |-> NoDet]
  /\ probes = 0
  /\ ires = NoRun
  /\ host = NoHost
  /\ bi = NoBi

\* ------------------------------------------------------------- environment
\* a browser is installed or removed behind the program's back
FsChange ==
  /\ fsChanges < MaxFsChanges
  /\ \E x \in watched(impl, env) :
       fs' = IF x \in fs THEN fs \ {x} ELSE fs \cup {x}
  /\ fsChanges' = fsChanges + 1
  /\ UNCHANGED << outerVars, systemInfo, browserPath, systemOptimized, calls, pc, op, opts, loc, sb, attempts, plan,
                  nlaunch, out, ghostVars >>

\* ------------------------------------------------------ top-level operations
begin(p, operation, o, at) ==
  /\ pc[p] = "idle"
  /\ \A q \in Callers : q < p => pc[q] # "idle"
  /\ calls < MaxCalls
  /\ calls' = calls + 1
  /\ op' = [op EXCEPT ![p] = operation]
  /\ opts' = [opts EXCEPT ![p] = o]
  /\ pc' = [pc EXCEPT ![p] = at]
  /\ attempts' = [attempts EXCEPT ![p] = 0]
  /\ nlaunch' = [nlaunch EXCEPT ![p] = 0]
  /\ out' = [out EXCEPT ![p] = NoOut]

\* values of options.useSystemChrome the callers pass; p5 never reads the option
UseSystemChromeChoices == IF impl = "ts" THEN BOOLEAN ELSE {TRUE}

\* a caller invokes BrowserSetup.setupBrowser(options)
StartSetup(p) ==
  /\ \E u \in UseSystemChromeChoices :
       begin(p, "setup", [useSystemChrome |-> u, retryAttempts |-> 0], "sb_entry")
  /\ UNCHANGED << outerVars, fs, fsChanges, systemInfo, browserPath, systemOptimized,
                  loc, sb, plan, ghostVars >>

\* where a call that begins with `await detectSystem()` (p5 createOptimizedBrowser
\* and getBrowserStatus) first suspends: in the probes, or at setupBrowser
entryPoint ==
  IF impl = "ts" \/ systemInfo # NoInfo THEN "sb_entry" ELSE "pre_detecting"

\* a caller invokes BrowserSetup.createOptimizedBrowser(options)
StartCreate(p) ==
  /\ \E u \in UseSystemChromeChoices :
       begin(p, "create", [useSystemChrome |-> u, retryAttempts |-> 0], entryPoint)
  /\ UNCHANGED << outerVars, fs, fsChanges, systemInfo, browserPath, systemOptimized,
                  loc, sb, plan, ghostVars >>

\* a caller invokes BrowserSetup.getBrowserStatus(): setupBrowser() with no options
StartStatus(p) ==
  /\ begin(p, "status", NoOpts, entryPoint)
  /\ UNCHANGED << outerVars, fs, fsChanges, systemInfo, browserPath, systemOptimized,
                  loc, sb, plan, ghostVars >>

\* BrowserSetup.cleanup(): no await inside, runs in one turn
cleanup(p) ==
  /\ pc[p] = "idle"
  /\ \A q \in Callers : q < p => pc[q] # "idle"
  /\ calls < MaxCalls
  /\ calls' = calls + 1
  /\ browserPath' = Null
  /\ systemOptimized' = FALSE
  /\ UNCHANGED << outerVars, fs, fsChanges, systemInfo, pc, op, opts, loc, sb,
                  attempts, plan, nlaunch, out, ghostVars >>

\* the probes of the leading detectSystem() finish: this.systemInfo is stored
PreDetected(p) ==
  /\ pc[p] = "pre_detecting"
  /\ systemInfo' = detectSystem(env)
  /\ pc' = [pc EXCEPT ![p] = "sb_entry"]
  /\ UNCHANGED << outerVars, fs, fsChanges, browserPath, systemOptimized, calls, op,
                  opts, loc, sb, attempts, plan, nlaunch, out, ghostVars >>

\* ---------------------------------------------------------------- setupBrowser
\* the cache test of setupBrowser
cacheHit == browserPath # Null /\ systemOptimized

\* installDependencies() reaches its platform installer: one more invocation
startInstall(p, wave) ==
  /\ pc' = [pc EXCEPT ![p] = "sb_installing"]
  /\ waveInstalls' = waveInstalls + (IF wave THEN 1 ELSE 0)

\* setupBrowser from its entry to its first suspension: the cache test, then
\* detectSystem()'s memo test, then (profile cached) the installer
setupBrowser(p) ==
  /\ pc[p] = "sb_entry"
  /\ firstWave' = [firstWave EXCEPT ![p] = ~anyResolved]
  /\ IF cacheHit
       THEN /\ sb' = [sb EXCEPT ![p] = Found(browserPath)]
            /\ pc' = [pc EXCEPT ![p] = "sb_ret"]
            /\ anyResolved' = TRUE
            /\ UNCHANGED waveInstalls
       ELSE /\ IF systemInfo # NoInfo
                 THEN startInstall(p, ~anyResolved)
                 ELSE /\ pc' = [pc EXCEPT ![p] = "sb_detecting"]
                      /\ UNCHANGED waveInstalls
            /\ UNCHANGED << sb, anyResolved >>
  /\ UNCHANGED << outerVars, fs, fsChanges, systemInfo, browserPath, systemOptimized,
                  calls, op, opts, loc, attempts, plan, nlaunch, out >>

\* detectSystem() finishes its probes and stores this.systemInfo; the
\* installer starts in the same turn
SbDetected(p) ==
  /\ pc[p] = "sb_detecting"
  /\ systemInfo' = detectSystem(env)
  /\ startInstall(p, firstWave[p])
  /\ UNCHANGED << outerVars, fs, fsChanges, browserPath, systemOptimized, calls, op,
                  opts, loc, sb, attempts, plan, nlaunch, out, anyResolved, firstWave >>

\* ts: Alpine/musl forces options.useSystemChrome = true
effectiveOptions(v, si, o) ==
  IF v = "ts" /\ isAlpineOrMusl(si) THEN [o EXCEPT !.useSystemChrome = TRUE] ELSE o

\* the installer returns; setupBrowser records the result and calls
\* findOptimalBrowserPath, whose value it assigns after the await
SbInstalled(p) ==
  /\ pc[p] = "sb_installing"
  /\ \E c \in MainCmds :
       systemOptimized' = IF installDependencies(systemInfo, c).success
                            THEN TRUE ELSE systemOptimized
  /\ opts' = [opts EXCEPT ![p] = effectiveOptions(impl, systemInfo, opts[p])]
  /\ loc' = [loc EXCEPT ![p] =
               findOptimalBrowserPath(impl, systemInfo, opts'[p].useSystemChrome, fs, pwOk)]
  /\ pc' = [pc EXCEPT ![p] = "sb_assign"]
  /\ UNCHANGED << outerVars, fs, fsChanges, systemInfo, browserPath, calls, op, sb, attempts, plan, nlaunch, out, ghostVars >>

\* this.browserPath = await this.findOptimalBrowserPath(...); return / rethrow
SbAssign(p) ==
  /\ pc[p] = "sb_assign"
  /\ browserPath' = IF loc[p].ok THEN loc[p].path ELSE browserPath
  /\ sb' = [sb EXCEPT ![p] = loc[p]]
  /\ loc' = [loc EXCEPT ![p] = NoLoc]
  /\ pc' = [pc EXCEPT ![p] = "sb_ret"]
  /\ anyResolved' = TRUE
  /\ UNCHANGED << outerVars, fs, fsChanges, systemInfo, systemOptimized, calls, op, opts, attempts, plan, nlaunch, out,
                  firstWave, waveInstalls >>


\* setupBrowser() called directly: the caller receives the path or the error
awaitSetup(p) ==
  /\ pc[p] = "sb_ret" /\ op[p] = "setup"
  /\ out' = [out EXCEPT ![p] = IF sb[p].ok THEN Ok(sb[p].path, systemOptimized)
                                ELSE Err(sb[p].msg)]
  /\ pc' = [pc EXCEPT ![p] = "done"]
  /\ UNCHANGED << outerVars, fs, fsChanges, systemInfo, browserPath, systemOptimized,
                  calls, op, opts, loc, sb, attempts,
                  plan, nlaunch, ghostVars >>

\* getBrowserStatus(): try { setupBrowser() } catch -> { available: false }
getBrowserStatus(p) ==
  /\ pc[p] = "sb_ret" /\ op[p] = "status"
  /\ out' = [out EXCEPT ![p] = IF sb[p].ok THEN Ok(sb[p].path, systemOptimized)
                                ELSE Err(sb[p].msg)]
  /\ pc' = [pc EXCEPT ![p] = "done"]
  /\ UNCHANGED << outerVars, fs, fsChanges, systemInfo, browserPath, systemOptimized,
                  calls, op, opts, loc, sb, attempts,
                  plan, nlaunch, ghostVars >>

\* ------------------------------------------------------ createOptimizedBrowser
\* setupBrowser() has settled inside createOptimizedBrowser.
\*   ts: a setup error propagates; otherwise chromium.launch(launchOptions)
\*   p5: a setup error is retried up to maxAttempts times with a growing wait
createOptimizedBrowser(p) ==
  /\ pc[p] = "sb_ret" /\ op[p] = "create"
  /\ IF sb[p].ok
       THEN /\ pc' = [pc EXCEPT ![p] = "launching"]
            /\ nlaunch' = [nlaunch EXCEPT ![p] = 1]
            /\ \E k \in AcceptPlans : plan' = [plan EXCEPT ![p] = k]
            /\ UNCHANGED << attempts, out >>
       ELSE IF impl = "ts" \/ attempts[p] + 1 >= maxAttempts(opts[p])
         THEN /\ out' = [out EXCEPT ![p] = Err(sb[p].msg)]
              /\ pc' = [pc EXCEPT ![p] = "done"]
              /\ attempts' = [attempts EXCEPT ![p] = IF impl = "ts" THEN 0 ELSE @ + 1]
              /\ UNCHANGED << nlaunch, plan >>
         ELSE /\ attempts' = [attempts EXCEPT ![p] = @ + 1]
              /\ pc' = [pc EXCEPT ![p] = "co_wait"]
              /\ UNCHANGED << nlaunch, out, plan >>
  /\ UNCHANGED << outerVars, fs, fsChanges, systemInfo, browserPath, systemOptimized,
                  calls, op, opts, loc, sb, ghostVars >>

\* p5: await new Promise(resolve => setTimeout(resolve, 1000 * attempts))
CoWait(p) ==
  /\ pc[p] = "co_wait"
  /\ pc' = [pc EXCEPT ![p] = "sb_entry"]
  /\ UNCHANGED << outerVars, fs, fsChanges, systemInfo, browserPath, systemOptimized,
                  calls, op, opts, loc, sb, attempts,
                  plan, nlaunch, out, ghostVars >>

\* the launch function on the caller's n-th attempt with executable x
launchAccepts(p, n, usable) == n >= plan[p] /\ usable

\* what createOptimizedBrowser does when the launch with the resolved path fails
\*   ts: falls back to a launch without executablePath
\*   p5: throws generateComprehensiveErrorMessage
onLaunchFailure(p) ==
  IF impl = "ts"
    THEN /\ pc' = [pc EXCEPT ![p] = "fallback"]
         /\ nlaunch' = [nlaunch EXCEPT ![p] = 2]
         /\ UNCHANGED << out, browserPath >>
    ELSE /\ out' = [out EXCEPT ![p] =
                      Err(generateComprehensiveErrorMessage(systemInfo, sb[p].path))]
         /\ pc' = [pc EXCEPT ![p] = "done"]
         /\ UNCHANGED << nlaunch, browserPath >>

\* `await chromium.launch(launchOptions)` with the resolved path settles
Launched(p) ==
  /\ pc[p] = "launching"
  /\ IF launchAccepts(p, nlaunch[p], sb[p].path \in fs)
       THEN /\ out' = [out EXCEPT ![p] = Ok(sb[p].path, systemOptimized)]
            /\ pc' = [pc EXCEPT ![p] = "done"]
            /\ UNCHANGED << nlaunch, browserPath >>
       ELSE onLaunchFailure(p)
  /\ UNCHANGED << outerVars, fs, fsChanges, systemInfo, systemOptimized, calls, op, opts, loc, sb, attempts, plan, ghostVars >>

\* a fallback that reports its own failure instead of the first one
onFallbackFailureOwnText(p) ==
  /\ out' = [out EXCEPT ![p] = Err(launchFailureMessageTs(LaunchError(nlaunch[p])))]
  /\ UNCHANGED browserPath

\* ts: the outcome when the fallback launch fails too
onFallbackFailure(p) ==
  /\ out' = [out EXCEPT ![p] = Err(launchFailureMessageTs(LaunchError(1)))]
  /\ UNCHANGED browserPath

\* ts: the launch without executablePath settles
Fallback(p) ==
  /\ pc[p] = "fallback"
  /\ IF launchAccepts(p, nlaunch[p], bundledUsable(fs, pwOk))
       THEN /\ out' = [out EXCEPT ![p] = Ok(PW, FALSE)]
            /\ UNCHANGED browserPath
       ELSE onFallbackFailure(p)
  /\ pc' = [pc EXCEPT ![p] = "done"]
  /\ UNCHANGED << outerVars, fs, fsChanges, systemInfo, systemOptimized, calls, op, opts, loc, sb, attempts, plan, nlaunch,
                  ghostVars >>

\* the caller has consumed the outcome
Finish(p) ==
  /\ pc[p] = "done"
  /\ pc' = [pc EXCEPT ![p] = "idle"]
  /\ op' = [op EXCEPT ![p] = "none"]
  /\ opts' = [opts EXCEPT ![p] = NoOpts]
  /\ sb' = [sb EXCEPT ![p] = NoLoc]
  /\ attempts' = [attempts EXCEPT ![p] = 0]
  /\ plan' = [plan EXCEPT ![p] = 1]
  /\ nlaunch' = [nlaunch EXCEPT ![p] = 0]
  /\ out' = [out EXCEPT ![p] = NoOut]
  /\ firstWave' = [firstWave EXCEPT ![p] = FALSE]
  /\ UNCHANGED << outerVars, fs, fsChanges, systemInfo, browserPath, systemOptimized,
                  calls, loc, anyResolved, waveInstalls >>

Next ==
  \/ FsChange
  \/ \E p \in Callers : StartSetup(p)
  \/ \E p \in Callers : StartCreate(p)
  \/ \E p \in Callers : StartStatus(p)
  \/ \E p \in Callers : cleanup(p)
  \/ \E p \in Callers : PreDetected(p)
  \/ \E p \in Callers : setupBrowser(p)
  \/ \E p \in Callers : SbDetected(p)
  \/ \E p \in Callers : SbInstalled(p)
  \/ \E p \in Callers : SbAssign(p)
  \/ \E p \in Callers : awaitSetup(p)
  \/ \E p \in Callers : getBrowserStatus(p)
  \/ \E p \in Callers : createOptimizedBrowser(p)
  \/ \E p \in Callers : CoWait(p)
  \/ \E p \in Callers : Launched(p)
  \/ \E p \in Callers : Fallback(p)
  \/ \E p \in Callers : Finish(p)

Spec == Init /\ [][Next]_vars

\* ------------------------------------------------------- CHROME_PATH is set
\* The same operations in a process started with CHROME_PATH naming a browser
\* executable that exists.
InitPinned ==
  /\ impl \in Impls
  /\ env \in MainEnvs
  /\ fs \in { S \cup {PinnedChrome} : S \in SUBSET watched(impl, env) }
  /\ pwOk = TRUE
  /\ chromePath = PinnedChrome
  /\ fsChanges = 0
  /\ systemInfo = NoInfo
  /\ browserPath = Null
  /\ systemOptimized = FALSE
  /\ calls = 0
  /\ pc = [p \in Callers |-> "idle"]
  /\ op = [p \in Callers |-> "none"]
  /\ opts = [p \in Callers |-> NoOpts]
  /\ loc = [p \in Callers |-> NoLoc]
  /\ sb = [p \in Callers |-> NoLoc]
  /\ attempts = [p \in Callers |-> 0]
  /\ plan = [p \in Callers |-> 1]
  /\ nlaunch = [p \in Callers |-> 0]
  /\ out = [p \in Callers |-> NoOut]
  /\ anyResolved = FALSE
  /\ firstWave = [p \in Callers |-> FALSE]
  /\ waveInstalls = 0
  /\ conv = NoConv
  /\ items = 0
  /\ inst = NoInst
  /\ cv = [p \in Callers |-> "idle"]
  /\ det = [p \in Callers |-> NoDet]
  /\ probes = 0
  /\ ires = NoRun
  /\ host = NoHost
  /\ bi = NoBi

SpecPinned == InitPinned /\ [][Next]_vars

\* ------------------------------------------------ findOptimalBrowserPath alone
\* One call of findOptimalBrowserPath on every kind of host, with any option
\* value and any files present among the host's candidates and the bundled
\* engine.
LocateEnvs ==
  { e \in ProbeEnvs :
      /\ e.readOk /\ ~e.redhat /\ ~e.archmark
      /\ e.uname \in {"plain", "fail"} /\ e.wmic \in {"microsoft", "fail"}
      /\ e.wsl \in {"empty", "fail"}
      /\ (e.platform \in {"darwin", "freebsd"} => (e.swvers = "ok" /\ e.arch = "x64")) }

\* the caller that runs the call under study: the lowest one
Worker == CHOOSE p \in Callers : \A q \in Callers : p <= q

\* the files whose existence findOptimalBrowserPath may test on this host
probed(v, si) == Range(candidatePaths(v, si)) \cup {PW}

InitLocate ==
  /\ impl \in Impls
  /\ env \in LocateEnvs
  /\ systemInfo = detectSystem(env)
  /\ fs \in { S \in SUBSET probed(impl, systemInfo) : Cardinality(S) <= MaxExisting }
  /\ pwOk \in BOOLEAN
  /\ chromePath = Null
  /\ fsChanges = 0
  /\ browserPath = Null
  /\ systemOptimized = FALSE
  /\ calls = 0
  /\ pc = [p \in Callers |-> IF p = Worker THEN "locate" ELSE "idle"]
  /\ op = [p \in Callers |-> "none"]
  /\ \E u \in BOOLEAN :
       opts = [p \in Callers |-> IF p = Worker THEN [NoOpts EXCEPT !.useSystemChrome = u]
                                  ELSE NoOpts]
  /\ loc = [p \in Callers |-> NoLoc]
  /\ sb = [p \in Callers |-> NoLoc]
  /\ attempts = [p \in Callers |-> 0]
  /\ plan = [p \in Callers |-> 1]
  /\ nlaunch = [p \in Callers |-> 0]
  /\ out = [p \in Callers |-> NoOut]
  /\ anyResolved = FALSE
  /\ firstWave = [p \in Callers |-> FALSE]
  /\ waveInstalls = 0
  /\ conv = NoConv
  /\ items = 0
  /\ inst = NoInst
  /\ cv = [p \in Callers |-> "idle"]
  /\ det = [p \in Callers |-> NoDet]
  /\ probes = 0
  /\ ires = NoRun
  /\ host = NoHost
  /\ bi = NoBi

\* await this.findOptimalBrowserPath(systemInfo, options)
Locate(p) ==
  /\ pc[p] = "locate"
  /\ loc' = [loc EXCEPT ![p] =
               findOptimalBrowserPath(impl, systemInfo, opts[p].useSystemChrome, fs, pwOk)]
  /\ pc' = [pc EXCEPT ![p] = "located"]
  /\ UNCHANGED << outerVars, fs, fsChanges, systemInfo, browserPath, systemOptimized,
                  calls, op, opts, sb, attempts, plan, nlaunch, out, ghostVars >>

NextLocate == \E p \in Callers : Locate(p)

SpecLocate == InitLocate /\ [][NextLocate]_vars

\* ------------------------------------------------------------ performConversion
\* The node converts its items one after another; each item gets a new
\* converter.  HtmlConverter and DocsConverter take their session from
\* BrowserSetup.createOptimizedBrowser, so the steps of BrowserSetup above run
\* inside convert, for caller Worker.
ConvKinds == {"html", "docs"}

\* inputs of a conversion: one that passes, one that BaseConverter.validate
\* rejects, and (DocsConverter) one without input.file
ConvInputs(k) == IF k = "docs" THEN {"ok", "invalid", "nofile"} ELSE {"ok", "invalid"}

\* a cleanup that drops the session object without closing it
cleanupWithoutClose(c, closes) ==
  [c EXCEPT !.cleanups = @ + 1, !.browser = Null, !.closeRejected = FALSE]

\* HtmlConverter.cleanup / DocsConverter.cleanup on converter c;
\* closes: this.browser.close() resolves (closing the session and its pages)
converterCleanup(c, closes) ==
  IF c.browser = Null
    THEN [c EXCEPT !.cleanups = @ + 1, !.closeRejected = FALSE]
    ELSE IF closes
      THEN [c EXCEPT !.cleanups = @ + 1, !.browser = Null, !.sessionOpen = FALSE,
                     !.pageOpen = FALSE, !.closeRejected = FALSE]
      ELSE [c EXCEPT !.cleanups = @ + 1, !.closeRejected = TRUE]

\* the installer's own calls, which no converter step touches
sdiVars == << det, probes, ires, bi >>

\* what the converter steps below leave alone
setupVars == << impl, env, pwOk, chromePath, fs, fsChanges, systemInfo, browserPath, systemOptimized,
                calls, pc, op, opts, loc, sb, attempts, plan, nlaunch, out, ghostVars >>

\* DantePdf.execute starts: returnData = [], the node's settings and input
execute ==
  /\ ~host.started
  /\ \E f \in BOOLEAN : \E m \in BOOLEAN : \E k \in 1..MaxItems :
       host' = [NoHost EXCEPT !.started = TRUE, !.cof = f, !.merge = m, !.n = k]
  /\ UNCHANGED << sdiVars, setupVars, conv, items, inst, cv >>

\* one turn of the item loop, from its try to performConversion's first real
\* suspension: new converter, initialize() (logs only), execute -> preProcess
\* -> validate, then convert, which asks BrowserSetup for a session because
\* this.browser is null
performConversion ==
  /\ conv.pc = "idle"
  /\ host.started /\ ~host.finished /\ ~host.merge /\ items < host.n
  /\ \E k \in ConvKinds : \E i \in ConvInputs(k) :
       IF i = "ok"
         THEN /\ begin(Worker, "create", [useSystemChrome |-> TRUE, retryAttempts |-> 0],
                       entryPoint)
              /\ conv' = [NoConv EXCEPT !.pc = "acquiring", !.kind = k]
         ELSE /\ conv' = [NoConv EXCEPT !.pc = "catch_cleanup", !.kind = k, !.threw = TRUE,
                                        !.cause = "other",
                                        !.error = executeCatch(IF i = "invalid"
                                                                 THEN invalidInput
                                                                 ELSE missingFile)]
              /\ UNCHANGED << calls, pc, op, opts, attempts, nlaunch, out >>
  /\ UNCHANGED << det, probes, ires, bi, host, impl, env, pwOk, chromePath, items, inst, cv, fs, fsChanges, systemInfo, browserPath,
                  systemOptimized, loc, sb, plan, ghostVars >>

\* createOptimizedBrowser has settled: this.browser = browserResult.browser,
\* or its error goes through convert's catch (page is still null, so the
\* finally does nothing) and through execute's catch
ConvAcquired ==
  /\ conv.pc = "acquiring" /\ pc[Worker] = "done"
  /\ conv' = IF out[Worker].ok
               THEN [conv EXCEPT !.pc = "newpage", !.browser = "session",
                                 !.sessionOpen = TRUE, !.launched = TRUE]
               ELSE [conv EXCEPT !.pc = "catch_cleanup", !.threw = TRUE,
                                 !.cause = "acquire", !.origin = out[Worker].msg,
                                 !.error = executeCatch(convertCatch(Error(out[Worker].msg)))]
  /\ pc' = [pc EXCEPT ![Worker] = "idle"]
  /\ op' = [op EXCEPT ![Worker] = "none"]
  /\ opts' = [opts EXCEPT ![Worker] = NoOpts]
  /\ sb' = [sb EXCEPT ![Worker] = NoLoc]
  /\ attempts' = [attempts EXCEPT ![Worker] = 0]
  /\ plan' = [plan EXCEPT ![Worker] = 1]
  /\ nlaunch' = [nlaunch EXCEPT ![Worker] = 0]
  /\ out' = [out EXCEPT ![Worker] = NoOut]
  /\ firstWave' = [firstWave EXCEPT ![Worker] = FALSE]
  /\ UNCHANGED << det, probes, ires, bi, host, impl, env, pwOk, chromePath, items, inst, cv, fs, fsChanges, systemInfo, browserPath,
                  systemOptimized, calls, loc, anyResolved, waveInstalls >>

\* page = await this.browser.newPage()
NewPage ==
  /\ conv.pc = "newpage"
  /\ \E ok \in BOOLEAN :
       conv' = IF ok THEN [conv EXCEPT !.pc = "work", !.pageOpen = TRUE]
               ELSE [conv EXCEPT !.pc = "catch_cleanup", !.threw = TRUE, !.cause = "other",
                                 !.error = executeCatch(convertCatch(PageError("browser.newPage:")))]
  /\ UNCHANGED << sdiVars, setupVars, host, items, inst, cv >>

\* viewport, content or URL loading, page.pdf(): returns the buffer or throws
\* into convert's catch; either way the finally block runs next
Render ==
  /\ conv.pc = "work"
  /\ \E ok \in BOOLEAN :
       conv' = IF ok THEN [conv EXCEPT !.pc = "page_closing"]
               ELSE [conv EXCEPT !.pc = "page_closing", !.threw = TRUE, !.cause = "other",
                                 !.error = convertCatch(PageError("page.pdf:"))]
  /\ UNCHANGED << sdiVars, setupVars, host, items, inst, cv >>

\* finally { if (page) await page.close() }: convert returns or throws here,
\* and what it throws passes execute's catch; a rejecting page.close()
\* replaces the error convert was throwing
PageClosed ==
  /\ conv.pc = "page_closing"
  /\ \E closes \in BOOLEAN :
       conv' = IF closes
                 THEN IF conv.threw
                        THEN [conv EXCEPT !.pageOpen = FALSE, !.pc = "catch_cleanup",
                                          !.error = executeCatch(@)]
                        ELSE [conv EXCEPT !.pageOpen = FALSE, !.pc = "try_cleanup"]
                 ELSE [conv EXCEPT !.pageCloseRejected = TRUE, !.threw = TRUE,
                                   !.pc = "catch_cleanup", !.cause = "other",
                                   !.error = executeCatch(PageError("page.close:"))]
  /\ UNCHANGED << sdiVars, setupVars, host, items, inst, cv >>

\* try { ...; await converter.cleanup(); return result }
TryCleanup ==
  /\ conv.pc = "try_cleanup"
  /\ \E closes \in BOOLEAN :
       LET c == converterCleanup(conv, closes)
       IN conv' = IF c.closeRejected
                    THEN [c EXCEPT !.pc = "catch_cleanup", !.threw = TRUE, !.cause = "other",
                                   !.error = PageError("browser.close:")]
                    ELSE [c EXCEPT !.pc = "returned"]
  /\ UNCHANGED << sdiVars, setupVars, host, items, inst, cv >>

\* catch (error) { await converter.cleanup(); throw error }: a cleanup that
\* rejects here replaces the error
CatchCleanup ==
  /\ conv.pc = "catch_cleanup"
  /\ \E closes \in BOOLEAN :
       LET c == converterCleanup(conv, closes)
       IN conv' = IF c.closeRejected
                    THEN [c EXCEPT !.pc = "thrown", !.cause = "other",
                                   !.error = PageError("browser.close:")]
                    ELSE [c EXCEPT !.pc = "thrown"]
  /\ UNCHANGED << sdiVars, setupVars, host, items, inst, cv >>

\* an output item: the input item it is for and its json.error
OutputItem(i, err, cause, origin) ==
  [item |-> i, error |-> err, cause |-> cause, origin |-> origin]

\* the item loop takes the result or the error: returnData.push of the PDF
\* item; in the catch, returnData.push of { ...json, error: error.message }
\* and continue, or throw new NodeOperationError(node, error.message, { itemIndex: i })
ConvDone ==
  /\ conv.pc \in {"returned", "thrown"}
  /\ IF conv.pc = "returned"
       THEN /\ host' = [host EXCEPT !.returnData =
                          Append(@, OutputItem(items, << >>, "none", << >>))]
            /\ items' = items + 1
       ELSE IF host.cof
         THEN /\ host' = [host EXCEPT !.returnData =
                            Append(@, OutputItem(items, conv.error.message, conv.cause,
                                                 conv.origin))]
              /\ items' = items + 1
         ELSE /\ host' = [host EXCEPT !.raised = NodeOperationError(conv.error.message, items),
                                      !.cause = conv.cause, !.origin = conv.origin,
                                      !.finished = TRUE]
              /\ UNCHANGED items
  /\ conv' = NoConv
  /\ UNCHANGED << sdiVars, setupVars, inst, cv >>

\* the loop is over: return [returnData]
executeReturn ==
  /\ host.started /\ ~host.finished /\ ~host.merge
  /\ conv.pc = "idle" /\ items = host.n
  /\ host' = [host EXCEPT !.finished = TRUE]
  /\ UNCHANGED << sdiVars, setupVars, conv, items, inst, cv >>

\* the mergePdfs branch: every input goes into one merge; one output item, or
\* under continueOnFail one error item, else the error is thrown as it is
mergePdfs ==
  /\ host.started /\ ~host.finished /\ host.merge
  /\ \E ok \in BOOLEAN :
       LET e == Error(<< "Need", "at", "least", "2", "PDFs", "to", "merge." >>)
       IN host' = IF ok
                    THEN [host EXCEPT !.finished = TRUE, !.returnData =
                            << OutputItem(0, << >>, "none", << >>) >>]
                    ELSE IF host.cof
                      THEN [host EXCEPT !.finished = TRUE, !.returnData =
                              << OutputItem(0, e.message, "other", << >>) >>]
                      ELSE [host EXCEPT !.finished = TRUE, !.raised = e, !.cause = "other"]
  /\ UNCHANGED << sdiVars, setupVars, conv, items, inst, cv >>

NextConv ==
  \/ execute
  \/ performConversion
  \/ \E p \in Callers : PreDetected(p)
  \/ \E p \in Callers : setupBrowser(p)
  \/ \E p \in Callers : SbDetected(p)
  \/ \E p \in Callers : SbInstalled(p)
  \/ \E p \in Callers : SbAssign(p)
  \/ \E p \in Callers : createOptimizedBrowser(p)
  \/ \E p \in Callers : CoWait(p)
  \/ \E p \in Callers : Launched(p)
  \/ \E p \in Callers : Fallback(p)
  \/ ConvAcquired
  \/ NewPage
  \/ Render
  \/ PageClosed
  \/ TryCleanup
  \/ CatchCleanup
  \/ ConvDone
  \/ executeReturn
  \/ mergePdfs

SpecConv == Init /\ [][NextConv]_vars


\* ------------------------------------- SystemDependencyInstaller on any host
\* detectSystem() and installDependencies() called on every kind of host the
\* probes can describe, with every package-manager behaviour of InstallCmds.

\* the first k packages of every installer's list
firstOf(k) ==
  UNION { { l[j] : j \in { i \in 1..Len(l) : i <= k } } :
          l \in { AlpinePackages([libc |-> "musl"]), DebianPackages, RedHatPackages,
                  ArchPackages, WindowsPackages } }

\* the k-th package of every installer's list
onlyAt(k) ==
  UNION { { l[j] : j \in { i \in 1..Len(l) : i = k } } :
          l \in { AlpinePackages([libc |-> "musl"]), DebianPackages, RedHatPackages,
                  ArchPackages, WindowsPackages } }

\* the packages whose install command fails: the first k of a list, or only
\* the k-th
BadSets ==
  { firstOf(k) : k \in 0..Len(AlpinePackages([libc |-> "musl"])) }
    \cup { onlyAt(k) : k \in 1..Len(WindowsPackages) }

InstallCmds ==
  { [index |-> i, batch |-> b, tool |-> t, present |-> pr, bad |-> bd] :
      i \in BOOLEAN, b \in BOOLEAN, t \in BOOLEAN, pr \in {{}, {"chromium"}},
      bd \in BadSets }

\* detectSystem reaches an await before it assigns this.systemInfo
probesAwait(e) == e.platform \in {"linux", "win32", "darwin"}

InitInstall ==
  /\ impl = "ts"
  /\ env \in ProbeEnvs
  /\ fs = {}
  /\ pwOk = TRUE
  /\ chromePath = Null
  /\ fsChanges = 0
  /\ systemInfo = NoInfo
  /\ browserPath = Null
  /\ systemOptimized = FALSE
  /\ calls = 0
  /\ pc = [p \in Callers |-> "idle"]
  /\ op = [p \in Callers |-> "none"]
  /\ opts = [p \in Callers |-> NoOpts]
  /\ loc = [p \in Callers |-> NoLoc]
  /\ sb = [p \in Callers |-> NoLoc]
  /\ attempts = [p \in Callers |-> 0]
  /\ plan = [p \in Callers |-> 1]
  /\ nlaunch = [p \in Callers |-> 0]
  /\ out = [p \in Callers |-> NoOut]
  /\ anyResolved = FALSE
  /\ firstWave = [p \in Callers |-> FALSE]
  /\ waveInstalls = 0
  /\ conv = NoConv
  /\ items = 0
  /\ inst = NoInst
  /\ cv = [p \in Callers |-> "idle"]
  /\ det = [p \in Callers |-> NoDet]
  /\ probes = 0
  /\ ires = NoRun
  /\ host = NoHost
  /\ bi = NoBi

\* what the installer's steps leave alone
installerFrame ==
  << impl, fs, pwOk, chromePath, browserPath, systemOptimized, calls, pc, op, opts, loc, sb,
     attempts, plan, nlaunch, out, ghostVars, conv, items, inst, cv, host, bi >>

\* detectSystem() up to its first await: the memo test, then the probes start;
\* on a platform with no awaited probe the call runs to its end at once
detectBegin(p) ==
  /\ det[p].pc = "idle"
  /\ IF systemInfo # NoInfo
       THEN /\ det' = [det EXCEPT ![p] = [pc |-> "done", value |-> systemInfo]]
            /\ UNCHANGED << systemInfo, probes >>
       ELSE /\ probes' = probes + 1
            /\ IF probesAwait(env)
                 THEN /\ det' = [det EXCEPT ![p].pc = "probing"]
                      /\ UNCHANGED systemInfo
                 ELSE /\ systemInfo' = detectSystem(env)
                      /\ det' = [det EXCEPT ![p] = [pc |-> "done", value |-> detectSystem(env)]]
  /\ UNCHANGED << installerFrame, env, fsChanges, ires >>

\* the probes are over: this.systemInfo = {...}; return this.systemInfo
detectEnd(p) ==
  /\ det[p].pc = "probing"
  /\ systemInfo' = detectSystem(env)
  /\ det' = [det EXCEPT ![p] = [pc |-> "done", value |-> detectSystem(env)]]
  /\ UNCHANGED << installerFrame, env, fsChanges, probes, ires >>

\* the host changes under the process: one probe now answers differently
envDrift ==
  /\ fsChanges < MaxFsChanges
  /\ \E e \in ProbeEnvs :
       /\ e.platform = env.platform /\ e.arch = env.arch
       /\ Cardinality({ f \in DOMAIN e : e[f] # env[f] }) = 1
       /\ env' = e
  /\ fsChanges' = fsChanges + 1
  /\ UNCHANGED << installerFrame, systemInfo, det, probes, ires >>

NextDetect ==
  \/ \E p \in Callers : detectBegin(p)
  \/ \E p \in Callers : detectEnd(p)
  \/ envDrift

SpecDetect == InitInstall /\ [][NextDetect]_vars

\* installDependencies() after its `await this.detectSystem()`: the dispatch,
\* the platform installer and the catch clauses, up to the value returned
installRun(p) ==
  /\ det[p].pc = "done"
  /\ ~ires.done
  /\ \E c \in InstallCmds :
       ires' = [done |-> TRUE, cmds |-> c, manager |-> managerInvoked(det[p].value, c),
                result |-> installDependencies(det[p].value, c)]
  /\ UNCHANGED << installerFrame, env, fsChanges, systemInfo, det, probes >>

NextInstall ==
  \/ detectBegin(Worker)
  \/ detectEnd(Worker)
  \/ installRun(Worker)

SpecInstall == InitInstall /\ [][NextInstall]_vars

\* ------------------------------------------------- one converter, many converts
\* convert and cleanup called directly on one HtmlConverter / DocsConverter
\* instance; convert calls may overlap, cleanup comes when none is running.

\* convert(input) up to its first suspension: `if (!this.browser)` asks
\* BrowserSetup for a session, otherwise the held session is reused
convert(p) ==
  /\ cv[p] = "idle" /\ ~inst.cleaned
  /\ IF inst.browser = 0
       THEN /\ begin(p, "create", [useSystemChrome |-> TRUE, retryAttempts |-> 0],
                     entryPoint)
            /\ cv' = [cv EXCEPT ![p] = "acquiring"]
       ELSE /\ calls < MaxCalls
            /\ \A q \in Callers : q < p => cv[q] # "idle"
            /\ calls' = calls + 1
            /\ cv' = [cv EXCEPT ![p] = "rendering"]
            /\ UNCHANGED << pc, op, opts, attempts, nlaunch, out >>
  /\ UNCHANGED << sdiVars, host, impl, env, pwOk, chromePath, conv, items, inst, fs, fsChanges, systemInfo,
                  browserPath, systemOptimized, loc, sb, plan, ghostVars >>

\* this.browser = browserResult.browser, or the launch error is thrown
convertAcquired(p) ==
  /\ cv[p] = "acquiring" /\ pc[p] = "done"
  /\ IF out[p].ok
       THEN /\ inst' = [inst EXCEPT !.browser = p, !.open = @ \cup {p}]
            /\ cv' = [cv EXCEPT ![p] = "rendering"]
       ELSE /\ cv' = [cv EXCEPT ![p] = "idle"]
            /\ UNCHANGED inst
  /\ pc' = [pc EXCEPT ![p] = "idle"]
  /\ op' = [op EXCEPT ![p] = "none"]
  /\ opts' = [opts EXCEPT ![p] = NoOpts]
  /\ sb' = [sb EXCEPT ![p] = NoLoc]
  /\ attempts' = [attempts EXCEPT ![p] = 0]
  /\ plan' = [plan EXCEPT ![p] = 1]
  /\ nlaunch' = [nlaunch EXCEPT ![p] = 0]
  /\ out' = [out EXCEPT ![p] = NoOut]
  /\ firstWave' = [firstWave EXCEPT ![p] = FALSE]
  /\ UNCHANGED << sdiVars, host, impl, env, pwOk, chromePath, conv, items, fs, fsChanges, systemInfo, browserPath,
                  systemOptimized, calls, loc, anyResolved, waveInstalls >>

\* newPage, rendering and the page's close: convert returns or throws
convertRendered(p) ==
  /\ cv[p] = "rendering"
  /\ cv' = [cv EXCEPT ![p] = "idle"]
  /\ UNCHANGED << sdiVars, setupVars, host, conv, items, inst >>

\* cleanup() on the instance: if (this.browser) { await close(); this.browser = null }
cleanupInstance ==
  /\ ~inst.cleaned
  /\ \A p \in Callers : cv[p] = "idle"
  /\ IF inst.browser = 0
       THEN inst' = [inst EXCEPT !.cleaned = TRUE]
       ELSE \E closes \in BOOLEAN :
              inst' = IF closes
                        THEN [inst EXCEPT !.open = @ \ {inst.browser}, !.browser = 0,
                                          !.cleaned = TRUE]
                        ELSE [inst EXCEPT !.cleaned = TRUE, !.closeRejected = TRUE]
  /\ UNCHANGED << sdiVars, setupVars, host, conv, items, cv >>

NextInst ==
  \/ \E p \in Callers : convert(p)
  \/ \E p \in Callers : PreDetected(p)
  \/ \E p \in Callers : setupBrowser(p)
  \/ \E p \in Callers : SbDetected(p)
  \/ \E p \in Callers : SbInstalled(p)
  \/ \E p \in Callers : SbAssign(p)
  \/ \E p \in Callers : createOptimizedBrowser(p)
  \/ \E p \in Callers : CoWait(p)
  \/ \E p \in Callers : Launched(p)
  \/ \E p \in Callers : Fallback(p)
  \/ \E p \in Callers : convertAcquired(p)
  \/ \E p \in Callers : convertRendered(p)
  \/ cleanupInstance

SpecInst == Init /\ [][NextInst]_vars

\* ===================================================================== claims
\* the error message of a call carries a remediation line
hasRemediation(msg) ==
  \/ Contains(msg, << "Please", "ensure", "Chrome/Chromium", "is", "properly", "installed." >>)
  \/ Contains(msg, << "Troubleshooting:" >>)

\* C1 (as stated): setupBrowser calls that begin before any call has settled
\* invoke dependency installation once in total, and all of them settle with
\* the same path or the same failure.
C1_SingleFlight ==
  /\ waveInstalls <= 1
  /\ \A p, q \in Callers :
       (firstWave[p] /\ firstWave[q] /\ pc[p] = "sb_ret" /\ pc[q] = "sb_ret")
         => sb[p] = sb[q]

\* C4 (as stated): when the cache holds a resolved path and a launch with that
\* path fails for good (fallback included), the cached path is invalidated.
C4_LaunchFailureInvalidates ==
  [][\A p \in Callers :
       (/\ pc[p] \in {"launching", "fallback"}
        /\ cacheHit /\ sb[p].path = browserPath
        /\ pc'[p] = "done" /\ ~out'[p].ok)
         => browserPath' = Null]_vars

\* C5 (as stated): with a resolved path that stays valid, when the launch
\* function rejects attempts 1..k-1 and accepts attempt k (k <= retryAttempts),
\* createOptimizedBrowser returns a session after exactly k launch attempts.
C5_RetryUntilAccepted ==
  \A p \in Callers :
    (op[p] = "create" /\ pc[p] = "done" /\ nlaunch[p] >= 1 /\ fsChanges = 0
       /\ plan[p] <= maxAttempts(opts[p]))
      => (out[p].ok /\ out[p].path = sb[p].path /\ nlaunch[p] = plan[p])

\* C6 (as stated): the error thrown when every launch attempt failed contains
\* the raw text of the launch failure, a remediation line, the platform/distro
\* and the path attempted.
C6_ExhaustedMessage ==
  \A p \in Callers :
    (op[p] = "create" /\ pc[p] = "done" /\ nlaunch[p] >= 1 /\ ~out[p].ok)
      => /\ Contains(out[p].msg, << LaunchError(1) >>)
         /\ hasRemediation(out[p].msg)
         /\ Contains(out[p].msg, << systemInfo.platform, "/", systemInfo.distro >>)
         /\ Contains(out[p].msg, << sb[p].path >>)

\* C7 (as stated): once setupBrowser has returned a path and no cleanup has run
\* since (browserPath is set), a later setupBrowser call returns that path
\* at once, without detection, installation or location.
C7_Memoized ==
  [][\A p \in Callers :
       (pc[p] = "sb_entry" /\ pc'[p] # "sb_entry" /\ browserPath # Null)
         => (pc'[p] = "sb_ret" /\ sb'[p] = Found(browserPath))]_vars

\* C8 (as stated): a getBrowserStatus call never invokes dependency
\* installation.
C8_StatusNeverInstalls ==
  [][\A p \in Callers :
       op[p] = "status" => ~(pc[p] # "sb_installing" /\ pc'[p] = "sb_installing")]_vars

\* C9 (as stated): BrowserSetup.cleanup leaves the resolved path, the
\* install-succeeded flag and the cached system profile all unset.
C9_CleanupClearsAll ==
  [][(\E p \in Callers : cleanup(p))
       => (browserPath' = Null /\ ~systemOptimized' /\ systemInfo' = NoInfo)]_vars

\* C2: on every host and with any files present, findOptimalBrowserPath
\* returns a path only if that path exists when it returns; otherwise it fails
\* with a browser-not-found error.
C2_LocatedExists ==
  \A p \in Callers :
    pc[p] = "located" =>
      IF loc[p].ok THEN loc[p].path \in fs
      ELSE loc[p].msg \in {AlpineMsgTs, GenericMsgTs, AlpineMsgP5, GenericMsgP5}

\* C2 happens: a later candidate is returned because the first does not exist
C2_Witness ==
  \E p \in Callers :
    /\ pc[p] = "located" /\ loc[p].ok /\ loc[p].path \in fs
    /\ \E i \in 2..Len(candidatePaths(impl, systemInfo)) :
         /\ loc[p].path = candidatePaths(impl, systemInfo)[i]
         /\ candidatePaths(impl, systemInfo)[1] \notin fs

\* C3: on a host whose distro is alpine or whose libc is musl,
\* findOptimalBrowserPath never returns the bundled engine's path, whatever
\* files exist: it returns one of the host's system candidates or fails.
C3_AlpineNeverBundled ==
  \A p \in Callers :
    (pc[p] = "located" /\ (systemInfo.distro = "alpine" \/ systemInfo.libc = "musl"))
      => /\ loc[p].path # PW
         /\ loc[p].ok => loc[p].path \in SystemPaths

\* C3 happens: the bundled engine is present and usable on a musl host, and
\* the call fails rather than return it
C3_Witness ==
  \E p \in Callers :
    /\ pc[p] = "located"
    /\ systemInfo.distro = "alpine" \/ systemInfo.libc = "musl"
    /\ PW \in fs /\ pwOk
    /\ ~loc[p].ok

C11_OneSession ==
  /\ Cardinality(inst.open) <= 1
  /\ (inst.cleaned /\ ~inst.closeRejected) => (inst.open = {} /\ inst.browser = 0)

\* the profile runs an index refresh (apk update / apt-get update) first
refreshesIndex(si) ==
  si.platform = "linux" /\ (si.isWSL \/ si.distro \in {"alpine", "debian"})

\* C12: installDependencies never throws, whatever the profile and whichever
\* package-manager commands fail: the call returns an outcome that carries a
\* message, and an error that cuts the installer short (the index refresh
\* failing) comes back as a non-succeeded outcome whose message reports the
\* failure, also when every package command would fail.
C12_NeverThrows ==
  ires.done =>
    /\ ~ires.result.threw
    /\ Len(ires.result.message) > 0
    /\ (refreshesIndex(det[Worker].value) /\ ~ires.cmds.index) =>
         (~ires.result.success /\ Contains(ires.result.message, << "failed:" >>))

C12_Witness ==
  /\ ires.done
  /\ det[Worker].value.distro = "alpine" /\ ~det[Worker].value.isWSL
  /\ ~ires.cmds.index
  /\ AllPackages \subseteq ires.cmds.bad
  /\ ~ires.result.threw /\ ~ires.result.success
  /\ Contains(ires.result.message, << "apk", "update" >>)


\* C13 (as stated): whenever an install run attempted packages, its outcome
\* is succeeded exactly when fewer than half of the packages it went through
\* (those it installed or found installed, and those that failed) failed.
C13_MajorityPolicy ==
  (ires.done /\ ires.result.ran # {}) =>
    (ires.result.success <=>
       2 * Cardinality(ires.result.failed)
         < Cardinality(ires.result.installed \cup ires.result.failed))

\* C14 (as stated): when the index refresh (apk update / apt-get update)
\* fails, the installer still runs its per-package install commands.
C14_RefreshBestEffort ==
  (ires.done /\ refreshesIndex(det[Worker].value) /\ ~ires.cmds.index) =>
    ires.result.ran # {}

\* C15 (as stated): on a host that is neither alpine nor musl, when some
\* system candidate exists findOptimalBrowserPath returns the first existing
\* candidate of the ordered list, never the bundled engine; it returns the
\* bundled engine only when no candidate exists and useSystemChrome is false.
C15_SystemBeforeBundled ==
  \A p \in Callers :
    (pc[p] = "located" /\ systemInfo.distro # "alpine" /\ systemInfo.libc # "musl") =>
      LET cands == candidatePaths(impl, systemInfo)
      IN /\ existing(cands, fs) # {} =>
              /\ loc[p].ok /\ loc[p].path # PW
              /\ \E i \in existing(cands, fs) :
                   /\ loc[p].path = cands[i]
                   /\ \A j \in existing(cands, fs) : i <= j
         /\ (loc[p].ok /\ loc[p].path = PW) =>
              (existing(cands, fs) = {} /\ ~opts[p].useSystemChrome)

\* C16 (as stated): detectSystem calls made in one process return identical
\* values, and the probes run for the first call only.
C16_DetectOnce ==
  /\ probes <= 1
  /\ \A p, q \in Callers :
       (det[p].pc = "done" /\ det[q].pc = "done") => det[p].value = det[q].value

\* the fields of SystemInfo a sub-probe of detectSystem fills in
ProbeFields ==
  [ldd |-> {"libc"}, readOk |-> {"osVersion"}, uname |-> {"isWSL"},
   wmic |-> {"distro", "osVersion"}, wsl |-> {"isWSL"}, swvers |-> {"osVersion"}]

\* the answers a sub-probe gives when it does not throw or time out
ProbeAnswers ==
  [ldd |-> {"musl", "gnu", "other"}, readOk |-> {TRUE}, uname |-> {"wsl", "plain"},
   wmic |-> {"microsoft", "nomatch"}, wsl |-> {"list", "empty"}, swvers |-> {"ok"}]

probeFails(e, f) == IF f = "readOk" THEN ~e.readOk ELSE e[f] = "fail"

\* C17 (as stated): detectSystem completes with platform and arch filled in
\* whichever sub-probes throw or time out, and a failing sub-probe costs only
\* its own fields: every other field has the value it would have had with
\* that sub-probe answering.
C17_ProbeFailureLocal ==
  det[Worker].pc = "done" =>
    LET v == det[Worker].value
    IN /\ v.platform = env.platform /\ v.arch = env.arch
       /\ \A f \in DOMAIN ProbeFields :
            probeFails(env, f) =>
              \A a \in ProbeAnswers[f] :
                \A fld \in DOMAIN v \ ProbeFields[f] :
                  detectSystem([env EXCEPT ![f] = a])[fld] = v[fld]

\* C18: when a conversion fails because createOptimizedBrowser threw (the
\* browser was not located or not launched), the reason the host gets,
\* json.error of the item under continueOnFail or else the message of the
\* NodeOperationError, is the message createOptimizedBrowser threw with, token
\* for token: the catch of convert and the catch of BaseConverter.execute
\* leave it as it is.
C18_ReasonVerbatim ==
  /\ \A k \in 1..Len(host.returnData) :
       host.returnData[k].cause = "acquire" =>
         host.returnData[k].error = host.returnData[k].origin
  /\ (host.raised.name = "NodeOperationError" /\ host.cause = "acquire") =>
       host.raised.message = host.origin

\* C18 happens: under continueOnFail a browser-not-found message has reached
\* the json.error of an output item
C18_Witness ==
  \E k \in 1..Len(host.returnData) :
    /\ host.returnData[k].cause = "acquire"
    /\ host.returnData[k].error \in {AlpineMsgTs, GenericMsgTs, AlpineMsgP5, GenericMsgP5}

\* the output items are for the input items 0, 1, 2, ... in this order, one
\* each, and an item that failed carries a message in json.error
outputsInOrder ==
  \A k \in 1..Len(host.returnData) :
    /\ host.returnData[k].item = k - 1
    /\ host.returnData[k].cause # "none" =>
         (host.cof /\ Len(host.returnData[k].error) > 0)

\* execute threw at the first failing item: a NodeOperationError with that
\* item's index, every earlier item has its output, nothing runs afterwards
raisedAtFirstFailure ==
  /\ ~host.cof /\ host.finished
  /\ host.raised.name = "NodeOperationError"
  /\ host.raised.itemIndex = Len(host.returnData)
  /\ host.raised.itemIndex = items
  /\ Len(host.raised.message) > 0
  /\ \A k \in 1..Len(host.returnData) : host.returnData[k].cause = "none"
  /\ conv.pc = "idle"

C20_AlpineRemedy ==
  \A p \in Callers :
    ( /\ pc[p] = "located"
      /\ systemInfo.platform = "linux" /\ systemInfo.distro = "alpine"
      /\ systemInfo.libc = "musl"
      /\ existing(candidatePaths(impl, systemInfo), fs) = {} ) =>
        /\ ~loc[p].ok
        /\ Contains(loc[p].msg,
                    << "apk", "add", "--no-cache", "chromium", "chromium-chromedriver" >>)

\* C21 (as stated): the package manager an install run invokes is the one of
\* the profile's distro or platform: apk for alpine, apt-get for debian, dnf
\* or yum for redhat (dnf when present), pacman for arch, Chocolatey on
\* Windows only when present, the Xcode tools check on macOS, and no manager
\* for any other profile.
C21_ManagerOfDistro ==
  ires.done =>
    LET si == det[Worker].value
    IN ires.manager =
         IF si.platform = "win32" THEN (IF ires.cmds.tool THEN "choco" ELSE "none")
         ELSE IF si.platform = "darwin" THEN "xcode-select"
         ELSE IF si.platform # "linux" THEN "none"
         ELSE IF si.distro = "alpine" THEN "apk"
         ELSE IF si.distro = "debian" THEN "apt-get"
         ELSE IF si.distro = "redhat" THEN (IF ires.cmds.tool THEN "dnf" ELSE "yum")
         ELSE IF si.distro = "arch" THEN "pacman"
         ELSE "none"

\* C22 (as stated): createOptimizedBrowser starts a further attempt only
\* while fewer than retryAttempts (3 when not given) attempts have failed,
\* and only after a wait of as many seconds as attempts have failed so far;
\* once the last allowed attempt has failed there is no wait and no attempt.
C22_BoundedBackoff ==
  [][\A p \in Callers :
       LET failed == IF impl = "p5" THEN attempts[p] ELSE nlaunch[p]
           retry == \/ pc[p] = "co_wait" /\ pc'[p] = "sb_entry"
                    \/ pc[p] = "launching" /\ pc'[p] = "fallback"
       IN retry => /\ failed < maxAttempts(opts[p])
                   /\ failed >= 1
                   /\ retryDelay(impl, failed) = BackoffUnitMs * failed]_vars

\* C23 (as stated): in a process where CHROME_PATH names a browser
\* executable, every setupBrowser call settles with that path and every
\* launch of createOptimizedBrowser uses it; the candidates are not searched.
C23_PinnedPathUsed ==
  chromePath # Null =>
    \A p \in Callers :
      /\ pc[p] = "sb_ret" => (sb[p].ok /\ sb[p].path = chromePath)
      /\ pc[p] = "launching" => sb[p].path = chromePath
      /\ loc[p] = NoLoc

\* the package list the installer chosen for the detected host walks, and
\* whether the run reached the per-package loop
loopList(si) ==
  LET k == installerFor(si)
  IN IF k = "windows" THEN WindowsPackages
     ELSE IF k = "alpine" THEN AlpinePackages(si)
     ELSE IF k \in {"wsl", "debian"} THEN DebianPackages
     ELSE IF k = "redhat" THEN RedHatPackages
     ELSE IF k = "arch" THEN ArchPackages
     ELSE << >>

loopReached(si, c) ==
  LET k == installerFor(si)
  IN \/ k = "windows" /\ c.tool
     \/ k = "alpine" /\ c.index
     \/ k \in {"wsl", "debian"} /\ c.index /\ ~c.batch
     \/ k \in {"redhat", "arch"}

\* C24: within an installer's package loop every package of the list is
\* handled whatever happened to the others: each package not reported present
\* by the already-installed check has its install command issued, also after
\* an earlier package failed, and a package reported present (Alpine's
\* `apk info`) is recorded as installed with no install command issued for it.
C24_PackagesIndependent ==
  LET si == det[Worker].value
      c == ires.cmds
      r == ires.result
      pkgs == Range(loopList(si))
      checked == IF installerFor(si) = "alpine" THEN pkgs \cap c.present ELSE {}
  IN (ires.done /\ loopReached(si, c)) =>
       /\ r.ran = pkgs \ checked
       /\ checked \subseteq r.installed
       /\ \A x \in pkgs \ checked : (x \in r.failed) <=> (x \in c.bad)

\* an Alpine run in which the first package's install fails, a later one is
\* installed, and a package already present is recorded without a command
C24_Witness ==
  LET si == det[Worker].value
      pkgs == loopList(si)
  IN /\ ires.done /\ installerFor(si) = "alpine" /\ ires.cmds.index
     /\ pkgs[1] \in ires.result.failed
     /\ \E j \in 2..Len(pkgs) : pkgs[j] \in ires.result.ran /\ pkgs[j] \in ires.result.installed
     /\ "chromium" \in ires.result.installed /\ "chromium" \notin ires.result.ran

\* C25: browserSetup.ts createOptimizedBrowser, after the launch with the
\* explicit executablePath failed, makes exactly one more launch attempt, with
\* no forced path: if it succeeds the call returns the bundled engine's session
\* with systemOptimized = false, if it fails the call fails with a message
\* carrying the first failure's text (not the fallback's), and in either case
\* the call ends there, with no third launch.
C25_SingleFallback ==
  [][\A p \in Callers : impl = "ts" =>
       /\ nlaunch'[p] <= Len(<< "explicit", "fallback" >>)
       /\ (pc[p] = "launching" /\ pc'[p] # "launching" /\ ~out'[p].ok) =>
             (pc'[p] = "fallback" /\ nlaunch'[p] = nlaunch[p] + 1)
       /\ (pc[p] = "fallback" /\ pc'[p] # "fallback") =>
             /\ pc'[p] = "done"
             /\ nlaunch'[p] = nlaunch[p]
             /\ out'[p].ok => (out'[p].path = PW /\ ~out'[p].sysOpt)
             /\ ~out'[p].ok =>
                  /\ Contains(out'[p].msg, << "Failed", "to", "launch", "browser:",
                                              LaunchError(1) >>)
                  /\ ~Contains(out'[p].msg, << LaunchError(nlaunch[p]) >>)]_vars

\* a ts call whose explicit-path launch and fallback launch both failed
C25_Witness ==
  \E p \in Callers :
    /\ impl = "ts" /\ pc[p] = "done" /\ nlaunch[p] > 1
    /\ ~out[p].ok /\ Contains(out[p].msg, << LaunchError(1) >>)

\* ------------------------------------------------------- BrowserInstaller
\* the two revisions of ensureBrowserInstalled differ in their installed
\* check: errors.ts awaits checkBrowserInstalled(), part_005 tests the
\* executable in line (impl "ts" and "p5")
InstallCommand == << "npx", "playwright-core", "install", "chromium", "--force" >>

Fulfilled(n) == [n |-> n, state |-> "fulfilled", error |-> NoErr]
Rejected(n, e) == [n |-> n, state |-> "rejected", error |-> e]

\* installBrowser(): execSync runs the command before the function returns,
\* so the promise it returns is settled already; a failure is rethrown as
\* `Failed to install Chromium: ${error.message}`; the final verification only
\* warns
installBrowser(n, ok) ==
  IF ok THEN Fulfilled(n)
  ELSE Rejected(n, Error(<< "Failed", "to", "install", "Chromium:" >>
                          \o CommandFailed(InstallCommand)))

\* an exit that leaves the singleton's fields as they are
finallyKeep(b) == b

\* finally { this.isInstalling = false; this.installPromise = null; }
finallyReset(b) == [b EXCEPT !.isInstalling = FALSE, !.installPromise = NoPromise]

InitEnsure ==
  /\ impl \in Impls
  /\ env = EnvDebian
  /\ fs = {}
  /\ pwOk = TRUE
  /\ chromePath = Null
  /\ fsChanges = 0
  /\ systemInfo = NoInfo
  /\ browserPath = Null
  /\ systemOptimized = FALSE
  /\ calls = 0
  /\ pc = [p \in Callers |-> "idle"]
  /\ op = [p \in Callers |-> "none"]
  /\ opts = [p \in Callers |-> NoOpts]
  /\ loc = [p \in Callers |-> NoLoc]
  /\ sb = [p \in Callers |-> NoLoc]
  /\ attempts = [p \in Callers |-> 0]
  /\ plan = [p \in Callers |-> 1]
  /\ nlaunch = [p \in Callers |-> 0]
  /\ out = [p \in Callers |-> NoOut]
  /\ anyResolved = FALSE
  /\ firstWave = [p \in Callers |-> FALSE]
  /\ waveInstalls = 0
  /\ conv = NoConv
  /\ items = 0
  /\ inst = NoInst
  /\ cv = [p \in Callers |-> "idle"]
  /\ det = [p \in Callers |-> NoDet]
  /\ probes = 0
  /\ ires = NoRun
  /\ host = NoHost
  /\ bi \in { [NoBi EXCEPT !.installed = v] : v \in BOOLEAN }

ensureFrame == << setupVars, conv, items, inst, cv, det, probes, ires, host >>

\* this.isInstalling = true; this.installPromise = this.installBrowser();
\* then the await of that promise starts
beginInstallation(p, ok, appears) ==
  LET promise == installBrowser(bi.commands + 1, ok)
  IN bi' = [bi EXCEPT !.isInstalling = TRUE,
                      !.installPromise = promise,
                      !.commands = @ + 1,
                      !.installed = @ \/ (ok /\ appears),
                      !.mine[p] = promise,
                      !.pc[p] = "awaiting"]

\* ensureBrowserInstalled() up to its first await
ensureEnter(p) ==
  /\ bi.pc[p] = "idle"
  /\ bi.calls[p] < MaxCalls
  /\ IF bi.isInstalling /\ bi.installPromise # NoPromise
       THEN bi' = [bi EXCEPT !.mine[p] = bi.installPromise, !.pc[p] = "joined"]
       ELSE IF impl = "ts"
         THEN bi' = [bi EXCEPT !.chk[p] = bi.installed, !.pc[p] = "checked"]
         ELSE IF bi.installed
           THEN bi' = [bi EXCEPT !.result[p] = Fulfilled(0), !.pc[p] = "done"]
           ELSE \E ok \in BOOLEAN : \E appears \in BOOLEAN : beginInstallation(p, ok, appears)
  /\ UNCHANGED ensureFrame

\* errors.ts: `await this.checkBrowserInstalled()` has settled
ensureChecked(p) ==
  /\ bi.pc[p] = "checked"
  /\ IF bi.chk[p]
       THEN bi' = [bi EXCEPT !.result[p] = Fulfilled(0), !.pc[p] = "done"]
       ELSE \E ok \in BOOLEAN : \E appears \in BOOLEAN : beginInstallation(p, ok, appears)
  /\ UNCHANGED ensureFrame

\* `await this.installPromise` has settled: catch rethrows, finally resets
ensureSettle(p) ==
  /\ bi.pc[p] = "awaiting"
  /\ bi' = [finallyReset(bi) EXCEPT !.result[p] = bi.mine[p], !.pc[p] = "done"]
  /\ UNCHANGED ensureFrame

\* `return this.installPromise`: the call settles as that promise does
joinSettle(p) ==
  /\ bi.pc[p] = "joined"
  /\ bi' = [bi EXCEPT !.result[p] = bi.mine[p], !.pc[p] = "done"]
  /\ UNCHANGED ensureFrame

\* the caller has consumed the outcome
ensureReturn(p) ==
  /\ bi.pc[p] = "done"
  /\ bi' = [bi EXCEPT !.pc[p] = "idle", !.calls[p] = @ + 1, !.chk[p] = FALSE,
                      !.mine[p] = NoPromise, !.result[p] = NoPromise]
  /\ UNCHANGED ensureFrame

NextEnsure ==
  \E p \in Callers :
    \/ ensureEnter(p)
    \/ ensureChecked(p)
    \/ ensureSettle(p)
    \/ joinSettle(p)
    \/ ensureReturn(p)

SpecEnsure == InitEnsure /\ [][NextEnsure]_vars

\* C26: ensureBrowserInstalled is single-flight: calls that overlap an
\* installation wait for it instead of starting another, so while no call has
\* settled yet (all calls made so far are concurrent) the install command has
\* run at most once and at most one caller is awaiting an installation it
\* started itself.
C26_SingleFlight ==
  (\A p \in Callers : bi.calls[p] = 0 /\ bi.pc[p] # "done") =>
     /\ bi.commands <= 1
     /\ Cardinality({ p \in Callers : bi.pc[p] = "awaiting" }) <= 1

\* C30: when a call that started an installation settles, by success or by
\* the installation's error, isInstalling is false and installPromise is null,
\* the call's outcome is the installation's (its error propagated unchanged),
\* and the next call that finds no browser starts a new installation.
C30_ResetOnSettle ==
  [][\A p \in Callers :
       /\ (bi.pc[p] = "awaiting" /\ bi'.pc[p] = "done") =>
            /\ ~bi'.isInstalling
            /\ bi'.installPromise = NoPromise
            /\ bi'.result[p] = bi.mine[p]
            /\ bi.mine[p].state = "rejected" =>
                 Contains(bi'.result[p].error.message,
                          << "Failed", "to", "install", "Chromium:" >>)
       /\ (bi.pc[p] = "idle" /\ bi'.pc[p] = "joined") =>
            \E q \in Callers : bi.pc[q] = "awaiting"]_vars

\* a call settled with its installation's error, and the fields are reset
C30_Witness ==
  \E p \in Callers :
    /\ bi.pc[p] = "done" /\ bi.result[p].state = "rejected" /\ bi.result[p].n > 0
    /\ ~bi.isInstalling /\ bi.installPromise = NoPromise

\* C27: setupBrowser answers from its cache only if the most recent location
\* attempt succeeded and produced the cached path; so when a location attempt
\* fails (with no other call in progress) the cache must not be left in a
\* state from which the next call returns a path.
C27_CacheFollowsLocation ==
  [][\A p \in Callers :
       ( /\ pc[p] = "sb_assign" /\ pc'[p] = "sb_ret"
         /\ ~loc[p].ok
         /\ \A q \in Callers \ {p} : pc[q] \in {"idle", "done"} )
       => ~(browserPath' # Null /\ systemOptimized')]_vars

\* C28: on an Alpine or musl host createOptimizedBrowser never starts the
\* bundled engine: the launch it makes carries a system-installed executable
\* path, and it makes no launch without a forced path.
C28_AlpineNeverBundled ==
  isAlpineOrMusl(detectSystem(env)) =>
    \A p \in Callers :
      /\ pc[p] = "launching" => sb[p].path \in SystemPaths
      /\ pc[p] # "fallback"

\* C29: when a Linux per-distro installer (Alpine, Debian, RedHat, Arch)
\* returns after its package loop, installedPackages and failedPackages are
\* disjoint and together are exactly the installer's package list.
C29_RecordedOnce ==
  LET si == det[Worker].value
      r == ires.result
  IN ( /\ ires.done /\ loopReached(si, ires.cmds)
       /\ installerFor(si) \in {"alpine", "debian", "wsl", "redhat", "arch"} ) =>
       /\ ~r.threw
       /\ r.installed \cap r.failed = {}
       /\ r.installed \cup r.failed = Range(loopList(si))

\* a RedHat run in which some packages failed and others were installed
C29_Witness ==
  /\ ires.done /\ installerFor(det[Worker].value) = "redhat"
  /\ ires.result.failed # {} /\ ires.result.installed # {}

====
